---------------------------- MODULE Spec2Model ----------------------------
(***************************************************************************)
(* A model of the DNS message decoder of packet-rs (pnet/dns).             *)
(*                                                                         *)
(* The decoder is a pure function of one immutable byte buffer.  Buffers   *)
(* are sequences of bytes (0..255); the Rust code indexes them from 0, so  *)
(* every read goes through At/Slice, which translate to the 1-based        *)
(* sequences of TLA+.  A Rust bounds-check failure is a panic; it is the   *)
(* outcome [status |-> "Panic"].  A loop that never ends is the outcome    *)
(* [status |-> "Diverge"].                                                 *)
(***************************************************************************)
EXTENDS Integers, Sequences, FiniteSets, TLC

VARIABLES
    raw,              \* the byte buffer handed to the decoder
    sent,             \* the message the buffer was written from (ghost)
    pc,               \* position of the decode: "init", "records", "done", "shown"
    offset,           \* parse_records: the running offset
    questions,        \* DnsPacket.questions
    answers,          \* DnsPacket.answers
    authorities,      \* DnsPacket.authorities
    additionals,      \* DnsPacket.additionals
    result,           \* what DnsPacket::parse returned
    shown,            \* what Display::fmt of the decoded packet produced
    start,            \* the offset a direct call of the label resolver was given
    labres,           \* what parse_labels(raw, start) returned
    named,            \* what get_name(raw, start) returned
    chars,            \* what get_character_strings(raw) returned
    rx_udp,           \* listen_udp: the packets its channel has yet to deliver
    rx_tcp,           \* listen_tcp: the packets its channel has yet to deliver
    printed,          \* what the listeners have written, in order
    threads           \* the state of the two listener threads

vars == <<raw, sent, pc, offset, questions, answers,
          authorities, additionals, result, shown, start, labres, named,
          chars, rx_udp, rx_tcp, printed, threads>>

---------------------------------------------------------------------------
(* Outcomes. *)

None == [status |-> "None"]

Panic == [status |-> "Panic"]

Diverge == [status |-> "Diverge"]

Err(e) == [status |-> "Err", err |-> e]

Ok(v) == [status |-> "Ok", val |-> v]

IsOk(r) == r.status = "Ok"

IsErr(r) == r.status = "Err"

\* the ? operator: go on with the value of an Ok, hand on everything else
Try(r, F(_)) == IF IsOk(r) THEN F(r.val) ELSE r

Min(a, b) == IF a < b THEN a ELSE b

---------------------------------------------------------------------------
(* Buffer access, 0-based as in the source. *)

Byte == 0..255

\* raw[i]
At(buf, i) == buf[i + 1]

\* &raw[a..b], defined for a <= b <= len
Slice(buf, a, b) == SubSeq(buf, a + 1, b)

\* whether &raw[a..b] is inside the buffer (otherwise the slice panics)
SliceOk(buf, a, b) == a <= b /\ b <= Len(buf)

---------------------------------------------------------------------------
(* helpers.rs *)

\* u16::from_be_bytes of a 2-byte slice
read_be_u16(bytes) == bytes[1] * 256 + bytes[2]

\* u32::from_be_bytes of a 4-byte slice; a u32 is kept as its two 16-bit
\* halves <<high, low>>
read_be_u32(bytes) ==
    <<read_be_u16(SubSeq(bytes, 1, 2)), read_be_u16(SubSeq(bytes, 3, 4))>>

\* u128::from_be_bytes of a 16-byte slice; a u128 is kept as its eight
\* 16-bit groups, most significant first
read_be_u128(bytes) ==
    [k \in 1..8 |-> read_be_u16(SubSeq(bytes, 2 * k - 1, 2 * k))]

---------------------------------------------------------------------------
(* str::from_utf8: the validity check of the standard library. *)

IsCont(b) == b >= 128 /\ b <= 191

RECURSIVE Utf8From(_, _)
Utf8From(bytes, k) ==
    IF k > Len(bytes) THEN TRUE
    ELSE LET b == bytes[k]
             n == Len(bytes)
             c1 == IF k + 1 <= n THEN bytes[k + 1] ELSE 0
             c2 == IF k + 2 <= n THEN bytes[k + 2] ELSE 0
             c3 == IF k + 3 <= n THEN bytes[k + 3] ELSE 0
         IN  IF b < 128 THEN Utf8From(bytes, k + 1)
             ELSE IF b >= 194 /\ b <= 223
                  THEN IsCont(c1) /\ Utf8From(bytes, k + 2)
             ELSE IF b = 224
                  THEN c1 >= 160 /\ c1 <= 191 /\ IsCont(c2) /\ Utf8From(bytes, k + 3)
             ELSE IF (b >= 225 /\ b <= 236) \/ b = 238 \/ b = 239
                  THEN IsCont(c1) /\ IsCont(c2) /\ Utf8From(bytes, k + 3)
             ELSE IF b = 237
                  THEN c1 >= 128 /\ c1 <= 159 /\ IsCont(c2) /\ Utf8From(bytes, k + 3)
             ELSE IF b = 240
                  THEN c1 >= 144 /\ c1 <= 191 /\ IsCont(c2) /\ IsCont(c3)
                       /\ Utf8From(bytes, k + 4)
             ELSE IF b >= 241 /\ b <= 243
                  THEN IsCont(c1) /\ IsCont(c2) /\ IsCont(c3) /\ Utf8From(bytes, k + 4)
             ELSE IF b = 244
                  THEN c1 >= 128 /\ c1 <= 143 /\ IsCont(c2) /\ IsCont(c3)
                       /\ Utf8From(bytes, k + 4)
             ELSE FALSE

\* ASCII is valid; anything else is walked sequence by sequence
from_utf8(bytes) ==
    IF \A k \in 1..Len(bytes) : bytes[k] < 128 THEN TRUE ELSE Utf8From(bytes, 1)

---------------------------------------------------------------------------
(* labels.rs *)

\* length & 0b11000000 != 0
IsReference(length) == (length \div 64) % 4 # 0

\* read_be_u16(&[raw[i] & 0b00111111, raw[i + 1]])
ReferenceTarget(hi, lo) == read_be_u16(<<hi % 64, lo>>)

\* an outcome that ends parse_labels with the cursor at i
EndAt(r, i) == [f \in (DOMAIN r) \cup {"at"} |-> IF f = "at" THEN i ELSE r[f]]

\* One pass of the loop of parse_labels per unfolding.  `visited` is the set
\* of offsets the loop has read a length byte at: the control flow from an
\* offset depends on the offset alone, so reaching an offset a second time
\* means the loop never ends.
RECURSIVE parse_labels_loop(_, _, _, _, _, _)
parse_labels_loop(buf, i, is_reference, label_indexes, next_index, visited) ==
    IF i >= Len(buf) THEN EndAt(Err("LabelLength"), i)
    ELSE IF i \in visited THEN Diverge
    ELSE LET length == At(buf, i) IN
         IF length = 0
         THEN Ok([labels |-> label_indexes,
                  next_index |-> IF is_reference THEN next_index ELSE i + 1,
                  iterations |-> Cardinality(visited) + 1])
         ELSE IF IsReference(length)
         THEN IF i + 1 >= Len(buf) THEN EndAt(Panic, i)
              ELSE LET new_i == ReferenceTarget(At(buf, i), At(buf, i + 1)) IN
                   IF new_i >= i THEN EndAt(Err("LabelReference"), i)
                   ELSE parse_labels_loop(buf, new_i, TRUE, label_indexes,
                            IF is_reference THEN next_index ELSE i + 2,
                            visited \cup {i})
         ELSE parse_labels_loop(buf, i + length + 1, is_reference,
                  Append(label_indexes, i), next_index, visited \cup {i})

\* parse_labels entering its loop as if it were following a pointer already
parse_labels_chasing(buf, off) == parse_labels_loop(buf, off, TRUE, <<>>, 0, {})

\* parse_labels recording the byte before the next field as a label too
parse_labels_recording_end(buf, off) ==
    Try(parse_labels_loop(buf, off, FALSE, <<>>, 0, {}), LAMBDA l :
    Ok([l EXCEPT !.labels = Append(@, l.next_index - 1)]))

parse_labels(buf, off) == parse_labels_loop(buf, off, FALSE, <<>>, 0, {})

\* the text of a name is the sequence of its bytes; "." is byte 46
Dot == <<46>>

RECURSIVE get_name_from_labels_loop(_, _, _, _)
get_name_from_labels_loop(buf, label_indexes, k, name) ==
    IF k > Len(label_indexes) THEN Ok(name)
    ELSE LET i == label_indexes[k] IN
         IF i >= Len(buf) THEN Panic
         ELSE LET length == At(buf, i)
                  j == i + 1
              IN  IF ~SliceOk(buf, j, j + length) THEN Panic
                  ELSE IF ~from_utf8(Slice(buf, j, j + length)) THEN Err("LabelUtf8")
                  ELSE get_name_from_labels_loop(buf, label_indexes, k + 1,
                           name \o Slice(buf, j, j + length) \o Dot)

get_name_from_labels(buf, label_indexes) ==
    get_name_from_labels_loop(buf, label_indexes, 1, <<>>)

\* get_name leaving out the '.' behind the last label
get_name_without_last_dot(buf, off) ==
    Try(parse_labels(buf, off), LAMBDA l :
    Try(get_name_from_labels(buf, l.labels), LAMBDA n :
    Ok(IF n = <<>> THEN n ELSE SubSeq(n, 1, Len(n) - 1))))

get_name(buf, off) ==
    Try(parse_labels(buf, off), LAMBDA l : get_name_from_labels(buf, l.labels))

---------------------------------------------------------------------------
(* characters.rs *)

RECURSIVE get_character_strings_loop(_, _, _)
get_character_strings_loop(buf, i, strings) ==
    IF ~(i < Len(buf)) THEN Ok(strings)
    ELSE LET length == At(buf, i) IN
         IF i + length > Len(buf) THEN Err("CharactersLength")
         ELSE LET j == i + 1 IN
              IF ~SliceOk(buf, j, j + length) THEN Panic
              ELSE IF ~from_utf8(Slice(buf, j, j + length)) THEN Err("CharactersUtf8")
              ELSE get_character_strings_loop(buf, j + length,
                       Append(strings, Slice(buf, j, j + length)))

\* get_character_strings with its cursor starting behind the first length byte
get_character_strings_from_one(buf) == get_character_strings_loop(buf, 1, <<>>)

\* let mut i = 0; while i < raw.len() { ... }
get_character_strings(buf) == get_character_strings_loop(buf, 0, <<>>)

---------------------------------------------------------------------------
(* record.rs: Type, Class *)

DNS_MIN_ANSWER_LENGTH == 11

DNS_MIN_QUESTION_LENGTH == 5

\* impl From<u16> for Type
TypeFrom(n) ==
    CASE n = 1 -> <<"A">>
      [] n = 2 -> <<"Ns">>
      [] n = 3 -> <<"Md">>
      [] n = 4 -> <<"Mf">>
      [] n = 5 -> <<"Cname">>
      [] n = 6 -> <<"Soa">>
      [] n = 7 -> <<"Mb">>
      [] n = 8 -> <<"Mg">>
      [] n = 9 -> <<"Mr">>
      [] n = 10 -> <<"Null">>
      [] n = 11 -> <<"Wks">>
      [] n = 12 -> <<"Ptr">>
      [] n = 13 -> <<"Hinfo">>
      [] n = 14 -> <<"Minfo">>
      [] n = 15 -> <<"Mx">>
      [] n = 16 -> <<"Txt">>
      [] n = 28 -> <<"Aaaa">>
      [] n = 33 -> <<"Srv">>
      [] n = 252 -> <<"Axfr">>
      [] n = 253 -> <<"Mailb">>
      [] n = 254 -> <<"Maila">>
      [] n = 255 -> <<"All">>
      [] OTHER -> <<"Unknown", n>>

\* ClassFrom taking class 3 (Chaos) for Internet
ClassFromChaosAsIn(n) ==
    CASE n = 1 -> <<"In">>
      [] n = 2 -> <<"Cs">>
      [] n = 3 -> <<"In">>
      [] n = 4 -> <<"Hs">>
      [] OTHER -> <<"Unknown", n>>

\* impl From<u16> for Class
ClassFrom(n) ==
    CASE n = 1 -> <<"In">>
      [] n = 2 -> <<"Cs">>
      [] n = 3 -> <<"Ch">>
      [] n = 4 -> <<"Hs">>
      [] OTHER -> <<"Unknown", n>>

---------------------------------------------------------------------------
(* record.rs: Data *)

\* Data::Ns(name), Data::Cname(name), Data::Ptr(name)
NameData(variant, r) ==
    Try(r, LAMBDA n : Ok([variant |-> variant, name |-> n]))

\* the five u32 fields of a SOA record at k
SoaFields(buf, mname, rname, k) ==
    IF ~SliceOk(buf, k, k + 20) THEN Panic
    ELSE Ok([variant |-> "Soa",
             mname |-> mname,
             rname |-> rname,
             serial |-> read_be_u32(Slice(buf, k, k + 4)),
             refresh |-> read_be_u32(Slice(buf, k + 4, k + 8)),
             retry |-> read_be_u32(Slice(buf, k + 8, k + 12)),
             expire |-> read_be_u32(Slice(buf, k + 12, k + 16)),
             minimum |-> read_be_u32(Slice(buf, k + 16, k + 20))])

\* the Type::Soa arm of Data::parse
SoaData(buf, i) ==
    Try(parse_labels(buf, i), LAMBDA m :
    Try(parse_labels(buf, m.next_index), LAMBDA r :
    Try(get_name_from_labels(buf, m.labels), LAMBDA mname :
    Try(get_name_from_labels(buf, r.labels), LAMBDA rname :
    SoaFields(buf, mname, rname, r.next_index)))))

\* the Type::Mx arm of Data::parse
MxData(buf, i) ==
    Try(get_name(buf, i + 2), LAMBDA n :
    Ok([variant |-> "Mx",
        preference |-> read_be_u16(Slice(buf, i, i + 2)),
        name |-> n]))

\* the Type::Srv arm of Data::parse
SrvData(buf, i) ==
    Try(get_name(buf, i + 6), LAMBDA n :
    Ok([variant |-> "Srv",
        priority |-> read_be_u16(Slice(buf, i, i + 2)),
        weight |-> read_be_u16(Slice(buf, i + 2, i + 4)),
        port |-> read_be_u16(Slice(buf, i + 4, i + 6)),
        target |-> n]))

\* the Type::Txt arm of Data::parse
TxtData(buf, i, length) ==
    Try(get_character_strings(Slice(buf, i, i + length)), LAMBDA t :
    Ok([variant |-> "Txt", strings |-> t]))

\* Data::Unknown(&raw[i..i + length])
UnknownData(buf, i, length) ==
    Ok([variant |-> "Unknown", bytes |-> Slice(buf, i, i + length)])

\* the arms of Data::parse that decode a name at the start of the RDATA
NameVariant(typ) ==
    CASE typ = <<"Ns">> -> "Ns"
      [] typ = <<"Cname">> -> "Cname"
      [] typ = <<"Ptr">> -> "Ptr"
      [] OTHER -> ""

\* Data::parse
DataParse(buf, off, length, typ, class) ==
    LET i == off IN
    IF i + length > Len(buf) THEN Err("DataLength")
    ELSE IF class # <<"In">> THEN UnknownData(buf, i, length)
    ELSE CASE typ = <<"A">> ->
                  IF length # 4 THEN Err("DataLength")
                  ELSE Ok([variant |-> "A",
                           addr |-> read_be_u32(Slice(buf, i, i + 4))])
           [] NameVariant(typ) # "" ->
                  NameData(NameVariant(typ), get_name(buf, i))
           [] typ = <<"Soa">> ->
                  IF length < 22 THEN Err("DataLength") ELSE SoaData(buf, i)
           [] typ = <<"Mx">> ->
                  IF length < 3 THEN Err("DataLength") ELSE MxData(buf, i)
           [] typ = <<"Txt">> -> TxtData(buf, i, length)
           [] typ = <<"Aaaa">> ->
                  IF length # 16 THEN Err("DataLength")
                  ELSE Ok([variant |-> "Aaaa",
                           addr |-> read_be_u128(Slice(buf, i, i + 16))])
           [] typ = <<"Srv">> ->
                  IF length < 7 THEN Err("DataLength") ELSE SrvData(buf, i)
           [] OTHER -> UnknownData(buf, i, length)

\* InvalidData with the slice running to the end of the buffer
InvalidDataToEnd(buf, off, length) ==
    IF ~SliceOk(buf, off, Len(buf)) THEN Panic
    ELSE Ok([variant |-> "Invalid", bytes |-> Slice(buf, off, Len(buf))])

\* Data::Invalid(&raw[offset..offset + std::cmp::min(length, raw.len())])
InvalidData(buf, off, length) ==
    IF ~SliceOk(buf, off, off + Min(length, Len(buf))) THEN Panic
    ELSE Ok([variant |-> "Invalid",
             bytes |-> Slice(buf, off, off + Min(length, Len(buf)))])

\* match parse { Ok(data) => data, Err(_) => alt }
OrElse(r, alt) == IF IsErr(r) THEN alt ELSE r

\* Data::get: the Data value, or Panic/Diverge when the call does not return
DataGet(buf, off, length, typ, class) ==
    OrElse(DataParse(buf, off, length, typ, class), InvalidData(buf, off, length))

---------------------------------------------------------------------------
(* record.rs: DnsRecord, DnsQuestion, DnsAnswer *)

\* DnsRecord::parse
DnsRecord_parse(buf, off) ==
    IF off > Len(buf) \/ Len(buf) - off < DNS_MIN_QUESTION_LENGTH
    THEN Err("RecordLength")
    ELSE Try(parse_labels(buf, off), LAMBDA l :
             Ok([offset |-> off,
                 label_indexes |-> l.labels,
                 next_index |-> l.next_index]))

\* DnsRecord::get_labels_length
get_labels_length(rec) == rec.next_index - rec.offset

\* the text "<error>"
ErrorText == <<60, 101, 114, 114, 111, 114, 62>>

\* DnsRecord::get_name: get_name_from_labels(..).unwrap_or("<error>")
DnsRecord_get_name(buf, rec) ==
    OrElse(get_name_from_labels(buf, rec.label_indexes), Ok(ErrorText))

\* &self.raw[i..i + width] for a fixed field at next_index + at
Field(buf, rec, at, width) ==
    IF ~SliceOk(buf, rec.next_index + at, rec.next_index + at + width) THEN Panic
    ELSE Ok(Slice(buf, rec.next_index + at, rec.next_index + at + width))

\* DnsRecord::get_type
get_type(buf, rec) ==
    Try(Field(buf, rec, 0, 2), LAMBDA f : Ok(TypeFrom(read_be_u16(f))))

\* DnsRecord::get_class
get_class(buf, rec) ==
    Try(Field(buf, rec, 2, 2), LAMBDA f : Ok(ClassFrom(read_be_u16(f))))

\* get_ttl reading where the class field is
get_ttl_at_class(buf, rec) ==
    Try(Field(buf, rec, 2, 4), LAMBDA f : Ok(read_be_u32(f)))

\* DnsRecord::get_ttl
get_ttl(buf, rec) ==
    Try(Field(buf, rec, 4, 4), LAMBDA f : Ok(read_be_u32(f)))

\* DnsRecord::get_data_length
get_data_length(buf, rec) ==
    Try(Field(buf, rec, 8, 2), LAMBDA f : Ok(read_be_u16(f)))

\* DnsRecord::get_data; the arguments are evaluated in the order written
get_data(buf, rec) ==
    Try(get_data_length(buf, rec), LAMBDA length :
    Try(get_type(buf, rec), LAMBDA typ :
    Try(get_class(buf, rec), LAMBDA class :
    DataGet(buf, rec.next_index + 10, length, typ, class))))

\* DnsQuestion::parse
DnsQuestion_parse(buf, off) == DnsRecord_parse(buf, off)

\* DnsQuestion::get_length counting the type field only
DnsQuestion_get_length_without_class(rec) == get_labels_length(rec) + 2

\* DnsQuestion::get_length
DnsQuestion_get_length(rec) == get_labels_length(rec) + 4

\* raw.len() - offset < DNS_MIN_ANSWER_LENGTH on usize.  With offset beyond
\* the buffer the subtraction overflows: a build with overflow checks panics,
\* one without wraps to 2^64 - (offset - len), which is not below the minimum.
AnswerTooShort(buf, off, checks) ==
    IF off > Len(buf)
    THEN IF checks THEN Panic ELSE Ok(FALSE)
    ELSE Ok(Len(buf) - off < DNS_MIN_ANSWER_LENGTH)

\* DnsAnswer::parse
DnsAnswer_parse(buf, off, checks) ==
    Try(AnswerTooShort(buf, off, checks), LAMBDA short :
    IF short THEN Err("RecordLength") ELSE DnsRecord_parse(buf, off))

\* the bytes of the labels a name resolves to, wherever they are written
RECURSIVE LabelsBytes(_, _, _)
LabelsBytes(buf, label_indexes, k) ==
    IF k > Len(label_indexes) THEN 0
    ELSE 1 + At(buf, label_indexes[k]) + LabelsBytes(buf, label_indexes, k + 1)

\* DnsAnswer::get_length counting the labels the name resolves to and a root
\* byte, the bytes at a pointer's target among them
DnsAnswer_get_length_of_labels(buf, rec) ==
    Try(get_data_length(buf, rec), LAMBDA length :
    Ok(LabelsBytes(buf, rec.label_indexes, 1) + 1 + 10 + length))

\* DnsAnswer::get_length
DnsAnswer_get_length(buf, rec) ==
    Try(get_data_length(buf, rec), LAMBDA length :
    Ok(get_labels_length(rec) + 10 + length))

---------------------------------------------------------------------------
(* packet.rs: header *)

DNS_HEADER_LENGTH == 12

\* impl From<u8> for OpCode
OpCodeFrom(code) ==
    CASE code = 0 -> <<"Query">>
      [] code = 1 -> <<"IQuery">>
      [] code = 2 -> <<"Status">>
      [] OTHER -> <<"Reserved", code>>

\* impl From<u8> for RCode
RCodeFrom(code) ==
    CASE code = 0 -> <<"NoError">>
      [] code = 1 -> <<"FormatError">>
      [] code = 2 -> <<"ServerFailure">>
      [] code = 3 -> <<"NameError">>
      [] code = 4 -> <<"NotImplemented">>
      [] code = 5 -> <<"Refused">>
      [] OTHER -> <<"Reserved", code>>

\* OpCodeTo giving Status the code of IQuery
OpCodeToStatusAsIQuery(opcode) ==
    CASE opcode = <<"Query">> -> 0
      [] opcode = <<"IQuery">> -> 1
      [] opcode = <<"Status">> -> 1
      [] OTHER -> opcode[2]

\* impl From<OpCode> for u8
OpCodeTo(opcode) ==
    CASE opcode = <<"Query">> -> 0
      [] opcode = <<"IQuery">> -> 1
      [] opcode = <<"Status">> -> 2
      [] OTHER -> opcode[2]

\* impl From<RCode> for u8
RCodeTo(rcode) ==
    CASE rcode = <<"NoError">> -> 0
      [] rcode = <<"FormatError">> -> 1
      [] rcode = <<"ServerFailure">> -> 2
      [] rcode = <<"NameError">> -> 3
      [] rcode = <<"NotImplemented">> -> 4
      [] rcode = <<"Refused">> -> 5
      [] OTHER -> rcode[2]

get_id(buf) == read_be_u16(Slice(buf, 0, 2))

\* (raw[2] & 0b10000000) >> 7
get_qr(buf) == At(buf, 2) \div 128

\* (raw[2] & 0b01111000) >> 3
get_opcode(buf) == OpCodeFrom((At(buf, 2) % 128) \div 8)

\* get_aa taking the bit of TC
get_aa_from_tc_bit(buf) == (At(buf, 2) % 4) \div 2

\* (raw[2] & 0b00000100) >> 2
get_aa(buf) == (At(buf, 2) % 8) \div 4

\* (raw[2] & 0b00000010) >> 1
get_tc(buf) == (At(buf, 2) % 4) \div 2

\* raw[2] & 0b00000001
get_rd(buf) == At(buf, 2) % 2

\* (raw[3] & 0b10000000) >> 7
get_ra(buf) == At(buf, 3) \div 128

\* (raw[3] & 0b01110000) >> 4
get_z(buf) == (At(buf, 3) % 128) \div 16

\* raw[3] & 0b00001111
get_rcode(buf) == RCodeFrom(At(buf, 3) % 16)

\* get_questions reading the ID
get_questions_from_id(buf) == read_be_u16(Slice(buf, 0, 2))

get_questions(buf) == read_be_u16(Slice(buf, 4, 6))

get_answers(buf) == read_be_u16(Slice(buf, 6, 8))

\* get_authorities reading the answer count
get_authorities_as_answers(buf) == read_be_u16(Slice(buf, 6, 8))

get_authorities(buf) == read_be_u16(Slice(buf, 8, 10))

get_additionals(buf) == read_be_u16(Slice(buf, 10, 12))

\* get_question / get_answer / get_authority / get_additional on a section
get_nth(section, nth) ==
    IF nth >= Len(section) THEN None ELSE Ok(section[nth + 1])

---------------------------------------------------------------------------
(* Display: what formatting a decoded packet reads. *)

\* impl Display for DnsQuestion
ShowQuestion(buf, rec) ==
    Try(DnsRecord_get_name(buf, rec), LAMBDA n :
    Try(get_type(buf, rec), LAMBDA t :
    Try(get_class(buf, rec), LAMBDA c :
    Ok([name |-> n, type |-> t, class |-> c]))))

\* impl Display for DnsAnswer
ShowAnswer(buf, rec) ==
    Try(ShowQuestion(buf, rec), LAMBDA q :
    Try(get_ttl(buf, rec), LAMBDA ttl :
    Try(get_data_length(buf, rec), LAMBDA length :
    Try(get_data(buf, rec), LAMBDA data :
    Ok([name |-> q.name, type |-> q.type, class |-> q.class,
        ttl |-> ttl, data_length |-> length, data |-> data])))))

\* what is written for one entry
ShowEntry(buf, rec, full) ==
    IF full THEN ShowAnswer(buf, rec) ELSE ShowQuestion(buf, rec)

\* for i in 0..count { if let Some(e) = get_nth(i) { write e } }: the entries
\* written, or the first outcome that ends the formatting
RECURSIVE ShowSection(_, _, _, _, _, _)
ShowSection(buf, section, count, full, i, out) ==
    IF i >= count THEN Ok(out)
    ELSE IF ~IsOk(get_nth(section, i))
    THEN ShowSection(buf, section, count, full, i + 1, out)
    ELSE Try(ShowEntry(buf, section[i + 1], full), LAMBDA v :
             ShowSection(buf, section, count, full, i + 1, Append(out, v)))

\* the header line of impl Display for DnsPacket
ShowHeader(buf) ==
    [id |-> get_id(buf), qr |-> get_qr(buf),
     opcode |-> get_opcode(buf), aa |-> get_aa(buf),
     tc |-> get_tc(buf), rd |-> get_rd(buf), ra |-> get_ra(buf),
     z |-> get_z(buf), rcode |-> get_rcode(buf),
     questions |-> get_questions(buf), answers |-> get_answers(buf),
     authorities |-> get_authorities(buf),
     additionals |-> get_additionals(buf)]

\* impl Display for DnsPacket
ShowPacket(buf, qs, an, ns, ar) ==
    Try(ShowSection(buf, qs, get_questions(buf), FALSE, 0, <<>>), LAMBDA q :
    Try(ShowSection(buf, an, get_answers(buf), TRUE, 0, <<>>), LAMBDA a :
    Try(ShowSection(buf, ns, get_authorities(buf), TRUE, 0, <<>>), LAMBDA n :
    Try(ShowSection(buf, ar, get_additionals(buf), TRUE, 0, <<>>), LAMBDA r :
    Ok([header |-> ShowHeader(buf), questions |-> q, answers |-> a,
        authorities |-> n, additionals |-> r])))))

---------------------------------------------------------------------------
(* The decode as a state machine: DnsPacket::parse, one pass of a loop of *)
(* parse_records per step, and the formatting of the result.              *)

Records == <<offset, questions, answers, authorities, additionals>>

Input == <<raw, sent>>

Direct == <<start, labres, named>>

Listeners == <<rx_udp, rx_tcp, printed, threads>>

\* what the decode of one buffer leaves alone
Aside == <<chars, Listeners>>

\* the ? operator in parse_records: the error (or the panic, or the loop
\* that never ends) leaves DnsPacket::parse, and the packet under construction
\* is dropped
Fail(r) ==
    /\ result' = r
    /\ pc' = "done"
    /\ questions' = <<>>
    /\ answers' = <<>>
    /\ authorities' = <<>>
    /\ additionals' = <<>>
    /\ UNCHANGED <<offset, shown, Input, Direct, Aside>>

\* Parse comparing the buffer length with the minimum length of an answer
ParseFromAnswerLength ==
    /\ pc = "init"
    /\ IF Len(raw) < DNS_MIN_ANSWER_LENGTH
       THEN /\ result' = Err("PacketLength")
            /\ pc' = "done"
            /\ UNCHANGED Records
       ELSE /\ pc' = "records"
            /\ offset' = DNS_HEADER_LENGTH
            /\ questions' = <<>>
            /\ answers' = <<>>
            /\ authorities' = <<>>
            /\ additionals' = <<>>
            /\ UNCHANGED result
    /\ UNCHANGED <<shown, Input, Direct, Aside>>

\* DnsPacket::parse up to the call of parse_records
Parse ==
    /\ pc = "init"
    /\ IF Len(raw) < DNS_HEADER_LENGTH
       THEN /\ result' = Err("PacketLength")
            /\ pc' = "done"
            /\ UNCHANGED Records
       ELSE /\ pc' = "records"
            /\ offset' = DNS_HEADER_LENGTH
            /\ questions' = <<>>
            /\ answers' = <<>>
            /\ authorities' = <<>>
            /\ additionals' = <<>>
            /\ UNCHANGED result
    /\ UNCHANGED <<shown, Input, Direct, Aside>>

\* one pass of `for _ in 0..self.get_questions()`
ParseQuestion ==
    /\ pc = "records"
    /\ Len(questions) < get_questions(raw)
    /\ LET q == DnsQuestion_parse(raw, offset) IN
       IF ~IsOk(q) THEN Fail(q)
       ELSE /\ offset' = offset + DnsQuestion_get_length(q.val)
            /\ questions' = Append(questions, q.val)
            /\ UNCHANGED <<answers, authorities, additionals, pc, result,
                           shown, Input, Direct, Aside>>

\* one pass of a loop over answers, authorities or additionals: the new
\* running offset and the framed record, or the outcome that ends the decode.
\* `checks` is the build (TRUE: arithmetic overflow panics); the actions take
\* either, since the source fixes none.
FrameAnswer(buf, off, checks) ==
    Try(DnsAnswer_parse(buf, off, checks), LAMBDA a :
    Try(DnsAnswer_get_length(buf, a), LAMBDA l :
    Ok([offset |-> off + l, record |-> a])))

\* one pass of `for _ in 0..self.get_answers()`
ParseAnswer ==
    /\ pc = "records"
    /\ Len(questions) = get_questions(raw)
    /\ Len(answers) < get_answers(raw)
    /\ \E checks \in BOOLEAN :
       LET a == FrameAnswer(raw, offset, checks) IN
       IF ~IsOk(a) THEN Fail(a)
       ELSE /\ offset' = a.val.offset
            /\ answers' = Append(answers, a.val.record)
            /\ UNCHANGED <<questions, authorities, additionals, pc, result,
                           shown, Input, Direct, Aside>>

\* one pass of `for _ in 0..self.get_authorities()`
ParseAuthority ==
    /\ pc = "records"
    /\ Len(questions) = get_questions(raw)
    /\ Len(answers) = get_answers(raw)
    /\ Len(authorities) < get_authorities(raw)
    /\ \E checks \in BOOLEAN :
       LET a == FrameAnswer(raw, offset, checks) IN
       IF ~IsOk(a) THEN Fail(a)
       ELSE /\ offset' = a.val.offset
            /\ authorities' = Append(authorities, a.val.record)
            /\ UNCHANGED <<questions, answers, additionals, pc, result,
                           shown, Input, Direct, Aside>>

\* one pass of `for _ in 0..self.get_additionals()`
ParseAdditional ==
    /\ pc = "records"
    /\ Len(questions) = get_questions(raw)
    /\ Len(answers) = get_answers(raw)
    /\ Len(authorities) = get_authorities(raw)
    /\ Len(additionals) < get_additionals(raw)
    /\ \E checks \in BOOLEAN :
       LET a == FrameAnswer(raw, offset, checks) IN
       IF ~IsOk(a) THEN Fail(a)
       ELSE /\ offset' = a.val.offset
            /\ additionals' = Append(additionals, a.val.record)
            /\ UNCHANGED <<questions, answers, authorities, pc, result,
                           shown, Input, Direct, Aside>>

\* parse_records returns Ok(()) and DnsPacket::parse returns Ok(packet)
Finish ==
    /\ pc = "records"
    /\ Len(questions) = get_questions(raw)
    /\ Len(answers) = get_answers(raw)
    /\ Len(authorities) = get_authorities(raw)
    /\ Len(additionals) = get_additionals(raw)
    /\ result' = Ok("packet")
    /\ pc' = "done"
    /\ UNCHANGED <<Records, shown, Input, Direct, Aside>>

\* the caller formats the decoded packet (println!("{}", dns))
Show ==
    /\ pc = "done"
    /\ IsOk(result)
    /\ shown' = ShowPacket(raw, questions, answers, authorities, additionals)
    /\ pc' = "shown"
    /\ UNCHANGED <<Records, result, Input, Direct, Aside>>

\* a direct call parse_labels(raw, o)
CallParseLabels(o) ==
    /\ pc = "init"
    /\ labres = None
    /\ named = None
    /\ start' = o
    /\ labres' = parse_labels(raw, o)
    /\ UNCHANGED <<Records, pc, result, shown, named, Input, Aside>>

\* both listener threads in their loops
Running == [udp |-> "running", tcp |-> "running"]

\* a direct call get_name(raw, o)
CallGetName(o) ==
    /\ pc = "init"
    /\ labres = None
    /\ named = None
    /\ start' = o
    /\ named' = get_name(raw, o)
    /\ UNCHANGED <<Records, pc, result, shown, labres, Input, Aside>>

\* the four header counts, in the order parse_records takes the sections
Counts(buf) ==
    <<get_questions(buf), get_answers(buf), get_authorities(buf),
      get_additionals(buf)>>

\* parse_records as one computation: the four loops from the running offset
\* `off` on, `phase` the section being filled; the four sections, or the
\* outcome that ends the decode
RECURSIVE parse_records(_, _, _, _, _)
parse_records(buf, off, phase, sections, checks) ==
    IF phase > 4 THEN Ok(sections)
    ELSE IF Len(sections[phase]) >= Counts(buf)[phase]
    THEN parse_records(buf, off, phase + 1, sections, checks)
    ELSE IF phase = 1
    THEN Try(DnsQuestion_parse(buf, off), LAMBDA q :
             parse_records(buf, off + DnsQuestion_get_length(q), phase,
                           [sections EXCEPT ![phase] = Append(@, q)], checks))
    ELSE Try(FrameAnswer(buf, off, checks), LAMBDA a :
             parse_records(buf, a.offset, phase,
                           [sections EXCEPT ![phase] = Append(@, a.record)], checks))

\* DnsPacket::parse as one computation
DnsPacket_parse(buf, checks) ==
    IF Len(buf) < DNS_HEADER_LENGTH THEN Err("PacketLength")
    ELSE parse_records(buf, DNS_HEADER_LENGTH, 1, <<<<>>, <<>>, <<>>, <<>>>>, checks)

\* match DnsPacket::parse(msg) { Ok(dns) => println!("{}", dns),
\*                                Err(e) => println!("malformed dns packet") }:
\* the line written, or the panic or endless loop that ends the thread
Report(msg, checks) ==
    LET dns == DnsPacket_parse(msg, checks) IN
    IF IsErr(dns) THEN Ok("malformed")
    ELSE Try(dns, LAMBDA v :
         Try(ShowPacket(msg, v[1], v[2], v[3], v[4]), LAMBDA text : Ok("packet")))

DNS_PORT == 53

\* packet.get_source() != DNS_PORT && packet.get_destination() != DNS_PORT
OtherPort(p) == p.source # DNS_PORT /\ p.destination # DNS_PORT

\* listen_tcp: the checks before the message is cut out of the segment
TcpSkipped(p) ==
    \/ OtherPort(p)
    \/ p.syn \/ p.fin
    \/ Len(p.payload) < 2 + DNS_HEADER_LENGTH
    \/ Len(p.payload) < 2 + read_be_u16(Slice(p.payload, 0, 2))

\* TcpMessage taking everything behind the two length bytes for the message
TcpMessageToEnd(p) == Ok(Slice(p.payload, 2, Len(p.payload)))

\* let msg = &data[2..2 + length]: the message, or the panic of a slice that
\* is out of range
TcpMessage(p) ==
    LET length == read_be_u16(Slice(p.payload, 0, 2)) IN
    IF ~SliceOk(p.payload, 2, 2 + length) THEN Panic
    ELSE Ok(Slice(p.payload, 2, 2 + length))

\* what a listener thread is left in by a report that did not return
Ended(r) == IF r.status = "Diverge" THEN "hung" ELSE "panicked"

\* print!("got udp dns packet from {}: ", addr), print!("got tcp ..."): the
\* first of the two writes of a pass; the thread goes on to the decode
Prefix(by, p) ==
    /\ printed' = Append(printed, [by |-> by, packet |-> p, said |-> "got"])
    /\ threads' = [threads EXCEPT ![by] = "decoding"]

\* the packet a listener has written its prefix for: `packet` of its loop
InFlight(by) ==
    LET own == { k \in 1..Len(printed) : printed[k].by = by } IN
    printed[CHOOSE k \in own : \A j \in own : j <= k].packet

\* the decode of the message and the println! of its outcome, the second
\* write of a pass; a decode or a formatting that does not return ends the
\* thread
Outcome(by, msg, checks) ==
    LET r == Report(msg, checks) IN
    IF IsOk(r)
    THEN /\ printed' = Append(printed, [by |-> by, packet |-> InFlight(by),
                                        said |-> r.val])
         /\ threads' = [threads EXCEPT ![by] = "running"]
    ELSE /\ threads' = [threads EXCEPT ![by] = Ended(r)]
         /\ UNCHANGED printed

\* listen_udp: iter.next(), the port check and the print! of the prefix
ListenUdp ==
    /\ threads.udp = "running"
    /\ rx_udp # <<>>
    /\ rx_udp' = Tail(rx_udp)
    /\ LET p == Head(rx_udp) IN
       IF ~p.ok
       THEN threads' = [threads EXCEPT !.udp = "failed"] /\ UNCHANGED printed
       ELSE IF OtherPort(p) THEN UNCHANGED <<printed, threads>>
       ELSE Prefix("udp", p)
    /\ UNCHANGED <<Records, pc, result, shown, Direct, Input, chars, rx_tcp>>

\* listen_udp: the match on DnsPacket::parse(packet.payload())
ReportUdp ==
    /\ threads.udp = "decoding"
    /\ \E checks \in BOOLEAN : Outcome("udp", InFlight("udp").payload, checks)
    /\ UNCHANGED <<Records, pc, result, shown, Direct, Input, chars, rx_udp,
                   rx_tcp>>

\* listen_tcp: iter.next(), the checks, the cut of the message and the print!
\* of the prefix
ListenTcp ==
    /\ threads.tcp = "running"
    /\ rx_tcp # <<>>
    /\ rx_tcp' = Tail(rx_tcp)
    /\ LET p == Head(rx_tcp) IN
       IF ~p.ok
       THEN threads' = [threads EXCEPT !.tcp = "failed"] /\ UNCHANGED printed
       ELSE IF TcpSkipped(p) THEN UNCHANGED <<printed, threads>>
       ELSE IF ~IsOk(TcpMessage(p))
       THEN threads' = [threads EXCEPT !.tcp = Ended(TcpMessage(p))]
                /\ UNCHANGED printed
       ELSE Prefix("tcp", p)
    /\ UNCHANGED <<Records, pc, result, shown, Direct, Input, chars, rx_udp>>

\* listen_tcp: the match on DnsPacket::parse(msg)
ReportTcp ==
    /\ threads.tcp = "decoding"
    /\ \E checks \in BOOLEAN :
           Outcome("tcp", TcpMessage(InFlight("tcp")).val, checks)
    /\ UNCHANGED <<Records, pc, result, shown, Direct, Input, chars, rx_udp,
                   rx_tcp>>

\* a direct call get_character_strings(raw)
CallGetCharacterStrings ==
    /\ pc = "init"
    /\ chars = None
    /\ chars' = get_character_strings(raw)
    /\ UNCHANGED <<Records, pc, result, shown, Direct, Input, Listeners>>

---------------------------------------------------------------------------
(* The wire format (RFC 1035) written out: the buffers the decoder is given *)
(* are written from messages, then possibly damaged.                        *)

U16Bytes(n) == <<n \div 256, n % 256>>

U32Bytes(w) == U16Bytes(w[1]) \o U16Bytes(w[2])

RECURSIVE WireLabels(_, _)
WireLabels(labels, k) ==
    IF k > Len(labels) THEN <<>>
    ELSE <<Len(labels[k])>> \o labels[k] \o WireLabels(labels, k + 1)

\* a name: its labels, then the root label or a pointer to offset ptr
WireName(n) ==
    WireLabels(n.labels, 1)
        \o (IF n.ptr < 0 THEN <<0>> ELSE <<192 + n.ptr \div 256, n.ptr % 256>>)

RECURSIVE TextOf(_, _)
TextOf(labels, k) ==
    IF k > Len(labels) THEN <<>>
    ELSE labels[k] \o Dot \o TextOf(labels, k + 1)

WireQuestion(q) == WireName(q.name) \o U16Bytes(q.type) \o U16Bytes(q.class)

WireRecord(r) ==
    WireName(r.name) \o U16Bytes(r.type) \o U16Bytes(r.class) \o U32Bytes(r.ttl)
        \o U16Bytes(Len(r.rdata)) \o r.rdata

RECURSIVE WireAll(_, _, _)
WireAll(entries, full, k) ==
    IF k > Len(entries) THEN <<>>
    ELSE (IF full THEN WireRecord(entries[k]) ELSE WireQuestion(entries[k]))
             \o WireAll(entries, full, k + 1)

WireFlags(f) ==
    <<f.qr * 128 + f.opcode * 8 + f.aa * 4 + f.tc * 2 + f.rd,
      f.ra * 128 + f.z * 16 + f.rcode>>

Wire(m) ==
    U16Bytes(m.id) \o WireFlags(m.flags)
        \o U16Bytes(Len(m.qd)) \o U16Bytes(Len(m.an))
        \o U16Bytes(Len(m.ns)) \o U16Bytes(Len(m.ar))
        \o WireAll(m.qd, FALSE, 1) \o WireAll(m.an, TRUE, 1)
        \o WireAll(m.ns, TRUE, 1) \o WireAll(m.ar, TRUE, 1)

RECURSIVE WireStrings(_, _)
WireStrings(strings, k) ==
    IF k > Len(strings) THEN <<>>
    ELSE <<Len(strings[k])>> \o strings[k] \o WireStrings(strings, k + 1)

---------------------------------------------------------------------------
(* The messages the buffers are written from. *)

RootName == [labels |-> <<>>, ptr |-> -1]

NameA == [labels |-> << <<97>> >>, ptr |-> -1]

NameBC == [labels |-> << <<98>>, <<99, 100>> >>, ptr |-> -1]

\* a pointer to the first question's name
PtrName == [labels |-> <<>>, ptr |-> DNS_HEADER_LENGTH]

\* a record: what is written, and `data`, the value its RDATA was written from
\* (`sound`: the RDATA is a well-formed value of the record's type)
RR(name, type, class, ttl, rdata, data, sound) ==
    [name |-> name, type |-> type, class |-> class, ttl |-> ttl,
     rdata |-> rdata, data |-> data, sound |-> sound]

Addr4 == <<49152, 513>>

Addr6 == <<8193, 3512, 0, 0, 0, 0, 65535, 1>>

RECURSIVE GroupBytes(_, _)
GroupBytes(groups, k) ==
    IF k > Len(groups) THEN <<>>
    ELSE U16Bytes(groups[k]) \o GroupBytes(groups, k + 1)

SoaValue ==
    [variant |-> "Soa", mname |-> TextOf(NameA.labels, 1),
     rname |-> TextOf(RootName.labels, 1), serial |-> <<32768, 1>>,
     refresh |-> <<0, 7200>>, retry |-> <<0, 900>>, expire |-> <<18, 30000>>,
     minimum |-> <<65535, 65535>>]

SoaBytes ==
    WireName(NameA) \o WireName(RootName) \o U32Bytes(SoaValue.serial)
        \o U32Bytes(SoaValue.refresh) \o U32Bytes(SoaValue.retry)
        \o U32Bytes(SoaValue.expire) \o U32Bytes(SoaValue.minimum)

TxtValue == << <<97>>, <<>>, <<98, 99>> >>

Invalid(bytes) == [variant |-> "Invalid", bytes |-> bytes]

Unknown(bytes) == [variant |-> "Unknown", bytes |-> bytes]

\* well-formed records of the nine decoded types
SoundRRs ==
    { RR(NameA, 1, 1, <<0, 300>>, U32Bytes(Addr4),
         [variant |-> "A", addr |-> Addr4], TRUE),
      RR(RootName, 2, 1, <<1, 0>>, WireName(NameBC),
         [variant |-> "Ns", name |-> TextOf(NameBC.labels, 1)], TRUE),
      RR(NameA, 5, 1, <<0, 0>>, WireName(NameA),
         [variant |-> "Cname", name |-> TextOf(NameA.labels, 1)], TRUE),
      RR(NameA, 6, 1, <<0, 60>>, SoaBytes, SoaValue, TRUE),
      RR(NameBC, 12, 1, <<65535, 65535>>, WireName(RootName),
         [variant |-> "Ptr", name |-> <<>>], TRUE),
      RR(NameA, 15, 1, <<0, 5>>, U16Bytes(10) \o WireName(NameA),
         [variant |-> "Mx", preference |-> 10,
          name |-> TextOf(NameA.labels, 1)], TRUE),
      RR(NameA, 16, 1, <<0, 5>>, WireStrings(TxtValue, 1),
         [variant |-> "Txt", strings |-> TxtValue], TRUE),
      RR(NameA, 16, 1, <<0, 5>>, <<>>,
         [variant |-> "Txt", strings |-> <<>>], TRUE),
      RR(RootName, 28, 1, <<0, 5>>, GroupBytes(Addr6, 1),
         [variant |-> "Aaaa", addr |-> Addr6], TRUE),
      RR(NameA, 33, 1, <<0, 5>>,
         U16Bytes(1) \o U16Bytes(2) \o U16Bytes(53) \o WireName(NameA),
         [variant |-> "Srv", priority |-> 1, weight |-> 2, port |-> 53,
          target |-> TextOf(NameA.labels, 1)], TRUE) }

\* records the decoder keeps opaque: a type it does not decode, a class
\* other than Internet
OpaqueRRs ==
    { RR(NameA, 99, 1, <<0, 5>>, <<1, 2>>, Unknown(<<1, 2>>), TRUE),
      RR(NameA, 1, 3, <<0, 5>>, <<1, 2, 3>>, Unknown(<<1, 2, 3>>), TRUE) }

\* Internet-class records whose RDLENGTH breaks the rule of their type
ShortRRs ==
    { RR(NameA, 1, 1, <<0, 5>>, <<192, 0, 2>>, Invalid(<<192, 0, 2>>), FALSE),
      RR(NameA, 1, 1, <<0, 5>>, <<1, 2, 3, 4, 5>>,
         Invalid(<<1, 2, 3, 4, 5>>), FALSE),
      RR(NameA, 28, 1, <<0, 5>>, <<1, 2, 3, 4, 5, 6, 7, 8, 9, 10>>,
         Invalid(<<1, 2, 3, 4, 5, 6, 7, 8, 9, 10>>), FALSE),
      RR(NameA, 6, 1, <<0, 5>>, <<0>>, Invalid(<<0>>), FALSE),
      RR(NameA, 15, 1, <<0, 5>>, <<0, 10>>, Invalid(<<0, 10>>), FALSE),
      RR(NameA, 33, 1, <<0, 5>>, <<0, 1, 0, 2, 0, 53>>,
         Invalid(<<0, 1, 0, 2, 0, 53>>), FALSE) }

FocusRRs == SoundRRs \cup OpaqueRRs \cup ShortRRs

\* the records written around the one in focus
SiblingRRs ==
    { RR(RootName, 1, 1, <<0, 300>>, U32Bytes(Addr4),
         [variant |-> "A", addr |-> Addr4], TRUE),
      RR(NameA, 2, 1, <<0, 9>>, WireName(NameA),
         [variant |-> "Ns", name |-> TextOf(NameA.labels, 1)], TRUE) }

Question(name, type, class) == [name |-> name, type |-> type, class |-> class]

\* the question sections written before the records
QuestionSeqs ==
    { <<>>,
      <<Question(NameBC, 28, 1), Question(NameA, 300, 4)>> }

\* the largest number of records in a message
MaxRR == 3

SiblingSeqs(n) == [1..n -> SiblingRRs]

\* at most one record in focus, siblings before and after it
FocusSeqs(a, b) ==
    { pre \o <<f>> \o post :
          pre \in SiblingSeqs(a), post \in SiblingSeqs(b), f \in FocusRRs }

RRSeqs ==
    (UNION { SiblingSeqs(n) : n \in 0..MaxRR })
    \cup (UNION { UNION { FocusSeqs(a, b) : b \in 0..(MaxRR - 1 - a) } :
                  a \in 0..(MaxRR - 1) })

\* the header fields that are not counts: QR, OPCODE, AA, TC, RD, RA, Z, RCODE
Flags(qr, opcode, aa, tc, rd, ra, z, rcode) ==
    [qr |-> qr, opcode |-> opcode, aa |-> aa, tc |-> tc, rd |-> rd,
     ra |-> ra, z |-> z, rcode |-> rcode]

\* a response with recursion desired and available
Response == Flags(1, 0, 0, 0, 1, 1, 0, 0)

Message(id, flags, qd, an, ns, ar) ==
    [id |-> id, flags |-> flags, qd |-> qd, an |-> an, ns |-> ns, ar |-> ar]

\* the records split over the three record sections in every way
Sectioned(qd, s) ==
    { Message(4660, Response, qd, SubSeq(s, 1, c[1]), SubSeq(s, c[1] + 1, c[2]),
              SubSeq(s, c[2] + 1, Len(s))) :
          c \in { x \in (0..Len(s)) \X (0..Len(s)) : x[1] <= x[2] } }

\* every value of the header fields that are not counts
HeaderMessages ==
    { Message(id, f, qd, <<>>, <<>>, <<>>) :
          id \in {0, 258, 65535},
          f \in { Flags(0, 0, 0, 0, 0, 0, 0, 0), Flags(1, 15, 1, 1, 1, 1, 7, 15),
                  Flags(1, 0, 0, 0, 0, 0, 0, 0), Flags(0, 1, 0, 0, 0, 0, 0, 1),
                  Flags(0, 2, 1, 0, 0, 0, 0, 2), Flags(0, 4, 0, 1, 0, 0, 1, 3),
                  Flags(0, 8, 0, 0, 1, 0, 2, 4), Flags(0, 3, 0, 0, 0, 1, 4, 5),
                  Flags(0, 0, 0, 0, 0, 0, 0, 8), Flags(1, 5, 0, 1, 0, 1, 5, 6) },
          qd \in { <<>>, <<Question(NameA, 1, 1)>>,
                   <<Question(RootName, 255, 255)>> } }

\* names written as pointers to the first question's name
CompressedA ==
    Message(4660, Response, <<Question(NameA, 1, 1)>>,
            <<RR(PtrName, 1, 1, <<0, 300>>, U32Bytes(Addr4),
                 [variant |-> "A", addr |-> Addr4], TRUE)>>,
            <<>>, <<>>)

CompressedNs ==
    Message(4660, Response, <<Question(NameA, 2, 1)>>,
            <<RR(PtrName, 2, 1, <<0, 300>>, WireName(PtrName),
                 [variant |-> "Ns", name |-> TextOf(NameA.labels, 1)], TRUE)>>,
            <<>>,
            <<RR([labels |-> << <<98>> >>, ptr |-> DNS_HEADER_LENGTH], 1, 1,
                 <<0, 300>>, U32Bytes(Addr4),
                 [variant |-> "A", addr |-> Addr4], TRUE)>>)

SoaMessage ==
    Message(4660, Response, <<>>, <<>>,
            <<RR(NameA, 6, 1, <<0, 60>>, SoaBytes, SoaValue, TRUE)>>, <<>>)

TxtMxMessage ==
    Message(4660, Response, <<Question(RootName, 255, 1)>>,
            <<RR(NameA, 16, 1, <<0, 5>>, WireStrings(TxtValue, 1),
                 [variant |-> "Txt", strings |-> TxtValue], TRUE)>>,
            <<>>,
            <<RR(RootName, 15, 1, <<0, 5>>, U16Bytes(10) \o WireName(NameA),
                 [variant |-> "Mx", preference |-> 10,
                  name |-> TextOf(NameA.labels, 1)], TRUE)>>)

\* a SOA record of the least RDLENGTH, 22, whose two names take four bytes:
\* 18 bytes are left for SERIAL to MINIMUM, and the buffer ends with the RDATA
SoaTightBytes ==
    WireName(NameA) \o WireName(RootName) \o U32Bytes(SoaValue.serial)
        \o U32Bytes(SoaValue.refresh) \o U32Bytes(SoaValue.retry)
        \o U32Bytes(SoaValue.expire) \o U16Bytes(SoaValue.minimum[1])

SoaTightMessage ==
    Message(4660, Response, <<>>, <<>>,
            <<RR(NameA, 6, 1, <<0, 60>>, SoaTightBytes, Invalid(SoaTightBytes),
                 FALSE)>>,
            <<>>)

\* messages whose RDLENGTH keeps the rule of the type while the RDATA is too
\* short for what the type holds
TightMessages == {SoaTightMessage}

\* one question and no record
QuestionMessage ==
    Message(4660, Response, <<Question(NameA, 1, 1)>>, <<>>, <<>>, <<>>)

\* the messages whose buffers are also given damaged
DamageBases ==
    {CompressedA, CompressedNs, SoaMessage, TxtMxMessage, QuestionMessage}

Messages ==
    (UNION { Sectioned(qd, s) : qd \in QuestionSeqs, s \in RRSeqs })
        \cup HeaderMessages \cup DamageBases \cup TightMessages

\* the bytes a damaged buffer has in place of one of its own
DamageBytes == {0, 1, 2, 4, 12, 64, 192, 255}

\* a buffer cut short, or with one byte replaced
Damaged(b) ==
    { SubSeq(b, 1, k) : k \in 0..(Len(b) - 1) }
        \cup { [b EXCEPT ![p] = v] : p \in 1..Len(b), v \in DamageBytes }

BuffersOf(m) ==
    {Wire(m)} \cup (IF m \in DamageBases THEN Damaged(Wire(m)) ELSE {})

\* whether the buffer is the message as written
Intact == raw = Wire(sent)

---------------------------------------------------------------------------
(* The decode of a message buffer. *)

Init ==
    /\ sent \in Messages
    /\ raw \in BuffersOf(sent)
    /\ pc = "init"
    /\ offset = 0
    /\ questions = <<>>
    /\ answers = <<>>
    /\ authorities = <<>>
    /\ additionals = <<>>
    /\ result = None
    /\ shown = None
    /\ start = 0
    /\ labres = None
    /\ named = None
    /\ chars = None
    /\ rx_udp = <<>>
    /\ rx_tcp = <<>>
    /\ printed = <<>>
    /\ threads = Running

Next ==
    \/ Parse
    \/ ParseQuestion
    \/ ParseAnswer
    \/ ParseAuthority
    \/ ParseAdditional
    \/ Finish
    \/ Show

Spec == Init /\ [][Next]_vars

---------------------------------------------------------------------------
(* The label resolver called directly, on every short buffer over a few   *)
(* bytes and at every start offset.                                        *)

\* a root label, label lengths, a character, bytes with one or both of the
\* top two bits set
LabelBytes == {0, 1, 2, 97, 128, 192}

\* the longest buffer the resolver is called on
MaxBuf == 5

LabelBuffers == UNION { [1..n -> LabelBytes] : n \in 0..MaxBuf }

InitLabels ==
    /\ raw \in LabelBuffers
    /\ sent = None
    /\ pc = "init"
    /\ offset = 0
    /\ questions = <<>>
    /\ answers = <<>>
    /\ authorities = <<>>
    /\ additionals = <<>>
    /\ result = None
    /\ shown = None
    /\ start = 0
    /\ labres = None
    /\ named = None
    /\ chars = None
    /\ rx_udp = <<>>
    /\ rx_tcp = <<>>
    /\ printed = <<>>
    /\ threads = Running

NextLabels ==
    \/ \E o \in 0..Len(raw) : CallParseLabels(o)
    \/ \E o \in 0..Len(raw) : CallGetName(o)

SpecLabels == InitLabels /\ [][NextLabels]_vars

---------------------------------------------------------------------------
(* The character-string decoder called directly: on sequences of strings  *)
(* written out with their length bytes, and on every short slice over a   *)
(* few bytes.                                                              *)

\* a string of the greatest length a length byte can state
LongString == [k \in 1..255 |-> 97]

\* the empty string, ASCII, a two-byte UTF-8 character, the longest string
Strings == { <<>>, <<97>>, <<98, 99>>, <<195, 169>>, LongString }

\* the largest number of strings written
MaxStrings == 3

StringSeqs == UNION { [1..n -> Strings] : n \in 0..MaxStrings }

\* the strings a slice was written from
Written(strings) == [status |-> "Written", strings |-> strings]

\* a zero length, lengths, a character, a byte that is no UTF-8
CharBytes == {0, 1, 2, 97, 255}

\* the longest slice that was not written from strings
MaxChars == 4

CharBuffers == UNION { [1..n -> CharBytes] : n \in 0..MaxChars }

InitChars ==
    /\ \/ \E strings \in StringSeqs :
              sent = Written(strings) /\ raw = WireStrings(strings, 1)
       \/ sent = None /\ raw \in CharBuffers
    /\ pc = "init"
    /\ offset = 0
    /\ questions = <<>>
    /\ answers = <<>>
    /\ authorities = <<>>
    /\ additionals = <<>>
    /\ result = None
    /\ shown = None
    /\ start = 0
    /\ labres = None
    /\ named = None
    /\ chars = None
    /\ rx_udp = <<>>
    /\ rx_tcp = <<>>
    /\ printed = <<>>
    /\ threads = Running

NextChars == CallGetCharacterStrings

SpecChars == InitChars /\ [][NextChars]_vars

---------------------------------------------------------------------------
(* The two listeners: each takes the packets of its channel one by one.   *)

\* a header with the given counts
HeaderBytes(qd, an, ns, ar) ==
    <<18, 52, 129, 128>> \o U16Bytes(qd) \o U16Bytes(an) \o U16Bytes(ns)
        \o U16Bytes(ar)

\* a response that decodes and formats
GoodPayload == Wire(CompressedA)

\* a header alone
EmptyPayload == HeaderBytes(0, 0, 0, 0)

\* shorter than a header
ShortPayload == <<18, 52, 129>>

\* a question whose name is a pointer to itself
ForwardPayload == HeaderBytes(1, 0, 0, 0) \o <<192, 12, 0, 1, 0, 1>>

\* an authority record cut off inside its TTL
TruncatedPayload ==
    HeaderBytes(0, 0, 1, 0) \o <<1, 97, 0, 0, 6, 0, 1, 0, 0, 0, 60>>

\* a question whose name is a label followed by a pointer back to it
LoopPayload == HeaderBytes(1, 0, 0, 0) \o <<1, 97, 192, 12, 0, 1, 0, 1>>

\* an authority record whose RDLENGTH states more RDATA than the buffer holds
OverrunPayload ==
    HeaderBytes(0, 0, 1, 0) \o <<1, 97, 0, 0, 6, 0, 1, 0, 0, 0, 60, 0, 24, 1>>

Payloads ==
    {GoodPayload, EmptyPayload, ShortPayload, ForwardPayload, TruncatedPayload,
     LoopPayload, OverrunPayload}

Udp(source, destination, payload) ==
    [ok |-> TRUE, source |-> source, destination |-> destination,
     payload |-> payload]

\* iter.next() returning Err
ReadError == [ok |-> FALSE]

UdpPackets ==
    { Udp(1024, 53, m) : m \in Payloads }
        \cup {Udp(53, 1024, GoodPayload), Udp(1024, 1025, TruncatedPayload),
              ReadError}

Tcp(source, destination, syn, fin, payload) ==
    [ok |-> TRUE, source |-> source, destination |-> destination,
     syn |-> syn, fin |-> fin, payload |-> payload]

\* a message behind the two bytes of its length
Framed(m) == U16Bytes(Len(m)) \o m

TcpPackets ==
    { Tcp(1024, 53, FALSE, FALSE, Framed(m)) : m \in Payloads }
        \cup {Tcp(53, 1024, FALSE, FALSE, Framed(GoodPayload)),
              Tcp(1024, 1025, FALSE, FALSE, Framed(TruncatedPayload)),
              Tcp(1024, 53, TRUE, FALSE, Framed(TruncatedPayload)),
              Tcp(1024, 53, FALSE, TRUE, Framed(LoopPayload)),
              Tcp(1024, 53, FALSE, FALSE, <<0, 3>> \o EmptyPayload),
              Tcp(1024, 53, FALSE, FALSE, <<0, 13>> \o EmptyPayload),
              Tcp(1024, 53, FALSE, FALSE, Framed(GoodPayload) \o <<0, 0>>),
              ReadError}

\* the largest number of packets the two channels deliver together
MaxPackets == 2

\* the packets the two channels deliver (ghost)
Delivered(udp, tcp) == [udp |-> udp, tcp |-> tcp]

InitListen ==
    /\ \E n \in 0..MaxPackets : \E m \in 0..(MaxPackets - n) :
           /\ rx_udp \in [1..n -> UdpPackets]
           /\ rx_tcp \in [1..m -> TcpPackets]
    /\ sent = Delivered(rx_udp, rx_tcp)
    /\ raw = <<>>
    /\ pc = "init"
    /\ offset = 0
    /\ questions = <<>>
    /\ answers = <<>>
    /\ authorities = <<>>
    /\ additionals = <<>>
    /\ result = None
    /\ shown = None
    /\ start = 0
    /\ labres = None
    /\ named = None
    /\ chars = None
    /\ printed = <<>>
    /\ threads = Running

NextListen ==
    \/ ListenUdp
    \/ ReportUdp
    \/ ListenTcp
    \/ ReportTcp

SpecListen == InitListen /\ [][NextListen]_vars

---------------------------------------------------------------------------
(* The decode of messages that carry every code: one number as TYPE and   *)
(* CLASS of a question and of a record in each section, its low bits as   *)
(* OPCODE and RCODE.                                                       *)

\* the largest of the consecutive numbers written as a code
MaxCode == 260

\* 0..MaxCode, and the numbers around the sign bit and the largest of 16 bits
Codes == (0..MaxCode) \cup {32767, 32768, 65535}

\* four bytes of RDATA that any type can be given
PlainRdata == <<0, 0, 0, 0>>

CodeRR(name, type, class) ==
    RR(name, type, class, <<0, 1>>, PlainRdata, Invalid(PlainRdata), FALSE)

\* the message written for the number n
CodeMessage(n) ==
    Message(n, Flags(0, n % 16, 0, 0, 0, 0, 0, (n \div 16) % 16),
            <<Question(NameA, n, n)>>,
            <<CodeRR(NameA, n, 1)>>,
            <<CodeRR(NameA, 1, n)>>,
            <<CodeRR(RootName, n, n)>>)

InitCodes ==
    /\ \E n \in Codes : sent = CodeMessage(n)
    /\ raw = Wire(sent)
    /\ pc = "init"
    /\ offset = 0
    /\ questions = <<>>
    /\ answers = <<>>
    /\ authorities = <<>>
    /\ additionals = <<>>
    /\ result = None
    /\ shown = None
    /\ start = 0
    /\ labres = None
    /\ named = None
    /\ chars = None
    /\ rx_udp = <<>>
    /\ rx_tcp = <<>>
    /\ printed = <<>>
    /\ threads = Running

SpecCodes == InitCodes /\ [][Next]_vars

---------------------------------------------------------------------------
(* The properties. *)

Decoded == pc \in {"done", "shown"}

\* the answers, authorities and additionals of the packet, in wire order
FullRecords == answers \o authorities \o additionals

\* the 16-bit big-endian number at bytes k, k + 1 of the buffer
Be16(k) == raw[k + 1] * 256 + raw[k + 2]

\* C1: for every buffer DnsPacket::parse returns a Message or a DnsError; it
\* neither aborts (index out of range, subtraction overflow) nor fails to
\* return.
C1_ParseReturnsMessageOrError == result.status \in {"None", "Ok", "Err"}

\* C2: for every buffer and start offset parse_labels ends, and after no more
\* passes of its loop than the buffer has bytes.
C2_ResolverEndsWithinLength ==
    /\ labres.status # "Diverge"
    /\ IsOk(labres) => labres.val.iterations <= Len(raw)

\* whether the byte at i is a compression pointer (both top bits set) whose
\* target is not below i; at the last byte of the buffer, whatever byte is
\* taken to follow
ForwardPointerAt(i) ==
    /\ i < Len(raw)
    /\ raw[i + 1] >= 192
    /\ IF i + 1 < Len(raw)
       THEN (raw[i + 1] % 64) * 256 + raw[i + 2] >= i
       ELSE (raw[i + 1] % 64) * 256 >= i

\* C3: whenever the resolver meets a compression pointer whose target is not
\* below the pointer's own offset, the outcome is LabelReference.
C3_ForwardPointerIsLabelReference ==
    ("at" \in DOMAIN labres /\ ForwardPointerAt(labres.at))
        => (IsErr(labres) /\ labres.err = "LabelReference")

\* C4: a decode that fails exposes no partly filled Message, and a decode that
\* succeeds has framed only entries that lie completely inside the buffer:
\* counts that declare more than fits make the decode fail.
C4_AllOrNothing ==
    /\ (Decoded /\ ~IsOk(result)) =>
           (questions = <<>> /\ FullRecords = <<>> /\ shown = None)
    /\ (Decoded /\ IsOk(result)) => offset <= Len(raw)

\* whether get_nth answers with an entry exactly below count
NthExactly(section, count) ==
    \A n \in 0..(count + 1) :
        IF n < count
        THEN get_nth(section, n) = Ok(section[n + 1])
        ELSE get_nth(section, n) = None

\* whether the entries were framed one after the other from offset 12 on
InWireOrder(entries) ==
    /\ entries # <<>> => entries[1].offset = 12
    /\ \A k \in 1..(Len(entries) - 1) : entries[k].offset < entries[k + 1].offset

\* C5: after a successful decode each section holds as many entries as its
\* header count says, in wire order, and get_question / get_answer /
\* get_authority / get_additional return an entry exactly for n below the count.
C5_SectionsMatchCounts ==
    (Decoded /\ IsOk(result)) =>
        /\ Len(questions) = Be16(4)
        /\ Len(answers) = Be16(6)
        /\ Len(authorities) = Be16(8)
        /\ Len(additionals) = Be16(10)
        /\ NthExactly(questions, Be16(4))
        /\ NthExactly(answers, Be16(6))
        /\ NthExactly(authorities, Be16(8))
        /\ NthExactly(additionals, Be16(10))
        /\ InWireOrder(questions \o FullRecords)

C5_Witness ==
    /\ Decoded
    /\ IsOk(result)
    /\ Len(questions) = 2
    /\ Len(answers) = 1
    /\ Len(authorities) = 1
    /\ Len(additionals) = 1

\* C6: in a decoded Message the RDATA of every answer, authority and
\* additional ends inside the buffer: N + 10 + RDLENGTH <= buffer length.
C6_RdataInsideBuffer ==
    (Decoded /\ IsOk(result)) =>
        \A k \in 1..Len(FullRecords) :
            LET rec == FullRecords[k] IN
            rec.next_index + 10 + Be16(rec.next_index + 8) <= Len(raw)

\* the part of the RDATA of rec that lies inside the buffer
RdataInside(rec) ==
    LET i == rec.next_index + 10
        e == Min(i + Be16(rec.next_index + 8), Len(raw))
    IN  IF i <= e THEN SubSeq(raw, i + 1, e) ELSE <<>>

\* the outcome of Data::parse on a framed record
ParsedData(rec) ==
    DataParse(raw, rec.next_index + 10, Be16(rec.next_index + 8),
              TypeFrom(Be16(rec.next_index)), ClassFrom(Be16(rec.next_index + 2)))

\* C7: Data::get on a framed record always returns a Data value, and when the
\* structural decode fails that value is Invalid holding the RDATA bytes that
\* lie inside the buffer.
C7_DataGetAlwaysReturns ==
    (Decoded /\ IsOk(result)) =>
        \A k \in 1..Len(FullRecords) :
            LET rec == FullRecords[k] IN
            /\ IsOk(get_data(raw, rec))
            /\ IsErr(ParsedData(rec)) =>
                   get_data(raw, rec).val =
                       [variant |-> "Invalid", bytes |-> RdataInside(rec)]

\* the values the RDATA of the records of a section were written from
DataWritten(records) == [k \in 1..Len(records) |-> records[k].data]

\* the Data values formatting a section read
DataShown(entries) == [k \in 1..Len(entries) |-> entries[k].data]

AllWritten(m) == m.an \o m.ns \o m.ar

HasShort(m) == \E k \in 1..Len(AllWritten(m)) : AllWritten(m)[k] \in ShortRRs

\* C8: an Internet-class record whose RDLENGTH breaks the rule of its type
\* decodes to Invalid holding exactly its RDATA bytes; the message still
\* decodes, and every other record decodes to the value it was written from.
C8_ShortRdataIsInvalid ==
    (Intact /\ HasShort(sent)) =>
        /\ Decoded => IsOk(result)
        /\ pc = "shown" =>
               /\ IsOk(shown)
               /\ DataShown(shown.val.answers) = DataWritten(sent.an)
               /\ DataShown(shown.val.authorities) = DataWritten(sent.ns)
               /\ DataShown(shown.val.additionals) = DataWritten(sent.ar)

C8_Witness ==
    /\ pc = "shown"
    /\ Intact
    /\ IsOk(shown)
    /\ Len(AllWritten(sent)) = 3
    /\ AllWritten(sent)[2] \in ShortRRs
    /\ AllWritten(sent)[2].type = 6
    /\ Len(sent.an) = 1
    /\ Len(sent.ns) = 1

\* what formatting reads of a question that was written
QuestionView(q) ==
    [name |-> TextOf(q.name.labels, 1), type |-> TypeFrom(q.type),
     class |-> ClassFrom(q.class)]

\* what formatting reads of a record that was written
RecordView(r) ==
    [name |-> TextOf(r.name.labels, 1), type |-> TypeFrom(r.type),
     class |-> ClassFrom(r.class), ttl |-> r.ttl,
     data_length |-> Len(r.rdata), data |-> r.data]

HeaderView(m) ==
    [id |-> m.id, qr |-> m.flags.qr, opcode |-> OpCodeFrom(m.flags.opcode),
     aa |-> m.flags.aa, tc |-> m.flags.tc, rd |-> m.flags.rd,
     ra |-> m.flags.ra, z |-> m.flags.z, rcode |-> RCodeFrom(m.flags.rcode),
     questions |-> Len(m.qd), answers |-> Len(m.an),
     authorities |-> Len(m.ns), additionals |-> Len(m.ar)]

MessageView(m) ==
    [header |-> HeaderView(m),
     questions |-> [k \in 1..Len(m.qd) |-> QuestionView(m.qd[k])],
     answers |-> [k \in 1..Len(m.an) |-> RecordView(m.an[k])],
     authorities |-> [k \in 1..Len(m.ns) |-> RecordView(m.ns[k])],
     additionals |-> [k \in 1..Len(m.ar) |-> RecordView(m.ar[k])]]

DecodedTypes == {1, 2, 5, 6, 12, 15, 16, 28, 33}

\* a valid message of uncompressed names and records of the decoded types
Plain(m) ==
    /\ \A k \in 1..Len(m.qd) : m.qd[k].name.ptr < 0
    /\ \A k \in 1..Len(AllWritten(m)) :
           LET r == AllWritten(m)[k] IN
           r.name.ptr < 0 /\ r.sound /\ r.class = 1 /\ r.type \in DecodedTypes

\* C9: a valid message written with uncompressed names decodes, and the header
\* fields, the four counts and every entry's name, type, class, ttl, rdlength
\* and typed data are the values that were written.
C9_RoundTrip ==
    (Intact /\ Plain(sent)) =>
        /\ Decoded => IsOk(result)
        /\ pc = "shown" => shown = Ok(MessageView(sent))

C9_Witness ==
    /\ pc = "shown"
    /\ Intact
    /\ Plain(sent)
    /\ Len(sent.qd) = 2
    /\ Len(sent.an) = 1
    /\ Len(sent.ns) = 1
    /\ Len(sent.ar) = 1
    /\ sent.ns[1].type = 6
    /\ IsOk(shown)

\* whether the name at `start` is a pointer to a smaller offset
PointerAtStart ==
    /\ start + 1 < Len(raw)
    /\ raw[start + 1] >= 192
    /\ (raw[start + 1] % 64) * 256 + raw[start + 2] < start

\* the 14-bit target of the pointer at `start`
TargetOfStart == (raw[start + 1] % 64) * 256 + raw[start + 2]

\* whether two outcomes of the resolver are the same labels, or the same error
SameResolution(a, b) ==
    /\ a.status = b.status
    /\ IsOk(a) => a.val.labels = b.val.labels
    /\ IsErr(a) => a.err = b.err

\* C10: a name written as a pointer to a smaller offset resolves to the labels
\* and the text that resolving at the pointer's 14-bit target gives, the next
\* field follows the two bytes of the pointer, and the resolution ends.
C10_PointerResolvesAsTarget ==
    PointerAtStart =>
        /\ labres # None =>
               /\ labres.status # "Diverge"
               /\ SameResolution(labres, parse_labels(raw, TargetOfStart))
               /\ IsOk(labres) =>
                      /\ labres.val.next_index = start + 2
                      /\ labres.val.iterations =
                             parse_labels(raw, TargetOfStart).val.iterations + 1
        /\ named # None =>
               /\ named.status # "Diverge"
               /\ named.status = get_name(raw, TargetOfStart).status
               /\ IsOk(named) => named = get_name(raw, TargetOfStart)

\* C11: the slice written from N valid UTF-8 strings, each behind its length
\* byte, decodes through get_character_strings to those N strings, in order
\* and byte for byte.
C11_TxtRoundTrip ==
    (sent # None /\ chars # None) => chars = Ok(sent.strings)

\* three strings decoded, an empty one among them and the longest one last
C11_Witness ==
    /\ sent # None
    /\ chars # None
    /\ Len(sent.strings) = 3
    /\ sent.strings[2] = <<>>
    /\ sent.strings[3] = LongString
    /\ IsOk(chars)

\* the first fault a walk over the length bytes of a slice meets from index i
\* on: "Length" for a length byte that states more bytes than follow it,
\* "Utf8" for a string that is no UTF-8, "" for none
RECURSIVE FirstFault(_, _)
FirstFault(buf, i) ==
    IF i >= Len(buf) THEN ""
    ELSE IF buf[i + 1] > Len(buf) - (i + 1) THEN "Length"
    ELSE IF ~from_utf8(SubSeq(buf, i + 2, i + 1 + buf[i + 1])) THEN "Utf8"
    ELSE FirstFault(buf, i + 1 + buf[i + 1])

\* C12: on every slice get_character_strings returns, reading nothing beyond
\* the slice, and returns CharactersLength when a length byte states more
\* bytes than follow it.
C12_OverlongStringIsCharactersLength ==
    chars # None =>
        /\ chars.status \in {"Ok", "Err"}
        /\ FirstFault(raw, 0) = "Length" => chars = Err("CharactersLength")

\* C13: a buffer shorter than 12 bytes, the empty one too, decodes to
\* PacketLength, and nothing was framed or read from it on the way.
C13_ShortBufferIsPacketLength ==
    (Len(raw) < 12 /\ pc # "init") =>
        /\ pc = "done"
        /\ result = Err("PacketLength")
        /\ offset = 0
        /\ questions = <<>>
        /\ FullRecords = <<>>
        /\ shown = None

\* the decode of a buffer of 11 bytes has ended
C13_Witness ==
    /\ Len(raw) = 11
    /\ pc = "done"
    /\ result = Err("PacketLength")

\* whether at least n bytes remain at the running offset
Remain(n) == offset <= Len(raw) /\ Len(raw) - offset >= n

\* the next entry parse_records frames is a question
FramingQuestion == pc = "records" /\ Len(questions) < get_questions(raw)

\* the next entry parse_records frames is an answer, authority or additional
FramingRecord ==
    /\ pc = "records"
    /\ Len(questions) = get_questions(raw)
    /\ \/ Len(answers) < get_answers(raw)
       \/ Len(authorities) < get_authorities(raw)
       \/ Len(additionals) < get_additionals(raw)

\* C14: framing a question with fewer than 5 bytes left, or a record with
\* fewer than 11, ends the decode with RecordLength, also when the running
\* offset lies beyond the end of the buffer.
C14_ShortEntryIsRecordLength ==
    [][((FramingQuestion /\ ~Remain(5)) \/ (FramingRecord /\ ~Remain(11)))
           => result' = Err("RecordLength")]_vars

\* C15: the header accessors of a decoded Message return the big-endian ID
\* and counts, and bytes 2 and 3 split into QR, OPCODE, AA, TC, RD and RA, Z,
\* RCODE, every bit in exactly one field and every field in its range.
C15_HeaderFields ==
    (Decoded /\ IsOk(result)) =>
        /\ get_id(raw) = Be16(0)
        /\ get_questions(raw) = Be16(4)
        /\ get_answers(raw) = Be16(6)
        /\ get_authorities(raw) = Be16(8)
        /\ get_additionals(raw) = Be16(10)
        /\ {get_qr(raw), get_aa(raw), get_tc(raw), get_rd(raw), get_ra(raw)}
               \subseteq {0, 1}
        /\ get_z(raw) \in 0..7
        /\ OpCodeTo(get_opcode(raw)) \in 0..15
        /\ RCodeTo(get_rcode(raw)) \in 0..15
        /\ raw[3] = get_qr(raw) * 128 + OpCodeTo(get_opcode(raw)) * 8
                       + get_aa(raw) * 4 + get_tc(raw) * 2 + get_rd(raw)
        /\ raw[4] = get_ra(raw) * 128 + get_z(raw) * 16 + RCodeTo(get_rcode(raw))

\* a decoded header with AA clear, TC set and a reserved OPCODE
C15_Witness ==
    /\ Decoded
    /\ IsOk(result)
    /\ get_aa(raw) = 0
    /\ get_tc(raw) = 1
    /\ get_opcode(raw) = <<"Reserved", 5>>
    /\ get_z(raw) = 5

\* whether the RDATA of a framed record ends inside the buffer
InsideBuffer(rec) == rec.next_index + 10 + Be16(rec.next_index + 8) <= Len(raw)

\* the RDLENGTH bytes at the RDATA offset of a framed record
RdataBytes(rec) ==
    SubSeq(raw, rec.next_index + 11, rec.next_index + 10 + Be16(rec.next_index + 8))

\* whether a framed record is of class 1 and of one of the nine decoded types
Structural(rec) ==
    Be16(rec.next_index + 2) = 1 /\ Be16(rec.next_index) \in DecodedTypes

\* C16: with the RDATA inside the buffer, a record of a class other than 1 or
\* of a type outside 1, 2, 5, 6, 12, 15, 16, 28, 33 has the data Unknown
\* holding exactly its RDLENGTH bytes; any other variant is of class 1 and one
\* of the nine types.
C16_OpaqueIsUnknown ==
    (Decoded /\ IsOk(result)) =>
        \A k \in 1..Len(FullRecords) :
            LET rec == FullRecords[k] IN
            InsideBuffer(rec) =>
                /\ ~Structural(rec) =>
                       get_data(raw, rec) =
                           Ok([variant |-> "Unknown", bytes |-> RdataBytes(rec)])
                /\ (IsOk(get_data(raw, rec))
                        /\ get_data(raw, rec).val.variant # "Unknown")
                       => Structural(rec)

\* a decoded SOA record of a class other than Internet
C16_Witness ==
    /\ Decoded
    /\ IsOk(result)
    /\ \E k \in 1..Len(FullRecords) :
           LET rec == FullRecords[k] IN
           /\ InsideBuffer(rec)
           /\ Be16(rec.next_index) = 6
           /\ Be16(rec.next_index + 2) # 1
           /\ IsOk(get_data(raw, rec))
           /\ get_data(raw, rec).val.variant = "Unknown"

\* whether the four header counts of a buffer of 12 bytes or more are zero
ZeroCounts == Len(raw) >= 12 /\ \A k \in 5..12 : raw[k] = 0

\* C18: a buffer of at least 12 bytes whose four counts are zero decodes to a
\* Message with four empty sections, whatever its other header bits and
\* whatever follows the header.
C18_ZeroCountsDecodeEmpty ==
    (ZeroCounts /\ pc # "init") =>
        /\ questions = <<>>
        /\ FullRecords = <<>>
        /\ Decoded => IsOk(result)
        /\ pc = "shown" =>
               /\ IsOk(shown)
               /\ shown.val.questions = <<>>
               /\ shown.val.answers = <<>>
               /\ shown.val.authorities = <<>>
               /\ shown.val.additionals = <<>>

\* a decoded buffer with zero counts, other header bits set and bytes behind
\* the header
C18_Witness ==
    /\ ZeroCounts
    /\ pc = "shown"
    /\ IsOk(shown)
    /\ Len(raw) > 12
    /\ raw[3] # 0

\* the entries framed so far, in the order they were framed
Entries == questions \o FullRecords

\* the encoded length of the k-th framed entry: its name, then type and
\* class and, for a record, ttl, RDLENGTH and the RDATA
EncodedLength(k) ==
    LET e == Entries[k] IN
    (e.next_index - e.offset)
        + (IF k <= Len(questions) THEN 4 ELSE 10 + Be16(e.next_index + 8))

\* C20: the first entry is framed at offset 12 and every later one where the
\* entry before it ends; the sections fill in the order questions, answers,
\* authorities, additionals, none taken up again; the running offset grows
\* with every entry.
C20_OffsetsChain ==
    (pc = "records" \/ (Decoded /\ IsOk(result))) =>
        /\ Entries # <<>> => Entries[1].offset = 12
        /\ \A k \in 1..(Len(Entries) - 1) :
               /\ Entries[k + 1].offset = Entries[k].offset + EncodedLength(k)
               /\ Entries[k + 1].offset > Entries[k].offset
        /\ offset = IF Entries = <<>> THEN 12
                    ELSE Entries[Len(Entries)].offset + EncodedLength(Len(Entries))
        /\ Entries # <<>> => offset > Entries[Len(Entries)].offset
        /\ Len(questions) <= get_questions(raw)
        /\ Len(answers) <= get_answers(raw)
        /\ Len(authorities) <= get_authorities(raw)
        /\ Len(additionals) <= get_additionals(raw)
        /\ answers # <<>> => Len(questions) = get_questions(raw)
        /\ authorities # <<>> =>
               Len(questions) = get_questions(raw) /\ Len(answers) = get_answers(raw)
        /\ additionals # <<>> =>
               /\ Len(questions) = get_questions(raw)
               /\ Len(answers) = get_answers(raw)
               /\ Len(authorities) = get_authorities(raw)

\* in the middle of a decode: two questions, an answer and an authority are
\* framed and an additional is still to come
C20_Witness ==
    /\ pc = "records"
    /\ Len(questions) = 2
    /\ Len(answers) = 1
    /\ Len(authorities) = 1
    /\ additionals = <<>>
    /\ get_additionals(raw) = 1

\* the number of a TYPE variant (RFC 1035 section 3.2.2, RFC 3596, RFC 2782)
TypeNumber(t) ==
    CASE t = <<"A">> -> 1
      [] t = <<"Ns">> -> 2
      [] t = <<"Md">> -> 3
      [] t = <<"Mf">> -> 4
      [] t = <<"Cname">> -> 5
      [] t = <<"Soa">> -> 6
      [] t = <<"Mb">> -> 7
      [] t = <<"Mg">> -> 8
      [] t = <<"Mr">> -> 9
      [] t = <<"Null">> -> 10
      [] t = <<"Wks">> -> 11
      [] t = <<"Ptr">> -> 12
      [] t = <<"Hinfo">> -> 13
      [] t = <<"Minfo">> -> 14
      [] t = <<"Mx">> -> 15
      [] t = <<"Txt">> -> 16
      [] t = <<"Aaaa">> -> 28
      [] t = <<"Srv">> -> 33
      [] t = <<"Axfr">> -> 252
      [] t = <<"Mailb">> -> 253
      [] t = <<"Maila">> -> 254
      [] t = <<"All">> -> 255
      [] OTHER -> t[2]

\* the number of a CLASS variant (RFC 1035 section 3.2.4)
ClassNumber(c) ==
    CASE c = <<"In">> -> 1
      [] c = <<"Cs">> -> 2
      [] c = <<"Ch">> -> 3
      [] c = <<"Hs">> -> 4
      [] OTHER -> c[2]

ListedTypes == (1..16) \cup {28, 33, 252, 253, 254, 255}

ListedClasses == 1..4

\* whether a shown entry carries the type and the class it was written with
CarriesCodes(entry, type, class) ==
    /\ TypeNumber(entry.type) = type
    /\ ClassNumber(entry.class) = class
    /\ type \notin ListedTypes => entry.type = <<"Unknown", type>>
    /\ class \notin ListedClasses => entry.class = <<"Unknown", class>>

\* C17: whatever number is written as TYPE, CLASS, OPCODE or RCODE, the decode
\* succeeds and shows a variant that carries that number (Reserved(n) for
\* OPCODE 3-15 and RCODE 6-15, Unknown(n) for an unlisted TYPE or CLASS), and
\* an OpCode or RCode converted back to a number is the code written.
C17_CodesTotalAndPreserved ==
    /\ Decoded => IsOk(result)
    /\ pc = "shown" =>
           /\ IsOk(shown)
           /\ OpCodeTo(shown.val.header.opcode) = sent.flags.opcode
           /\ RCodeTo(shown.val.header.rcode) = sent.flags.rcode
           /\ sent.flags.opcode >= 3 =>
                  shown.val.header.opcode = <<"Reserved", sent.flags.opcode>>
           /\ sent.flags.rcode >= 6 =>
                  shown.val.header.rcode = <<"Reserved", sent.flags.rcode>>
           /\ CarriesCodes(shown.val.questions[1], sent.qd[1].type, sent.qd[1].class)
           /\ CarriesCodes(shown.val.answers[1], sent.an[1].type, sent.an[1].class)
           /\ CarriesCodes(shown.val.authorities[1], sent.ns[1].type, sent.ns[1].class)
           /\ CarriesCodes(shown.val.additionals[1], sent.ar[1].type, sent.ar[1].class)

\* the largest 16-bit number shown as TYPE and CLASS, with reserved codes
C17_Witness ==
    /\ pc = "shown"
    /\ IsOk(shown)
    /\ sent.qd[1].type = 65535
    /\ shown.val.questions[1].type = <<"Unknown", 65535>>
    /\ shown.val.header.opcode = <<"Reserved", 15>>
    /\ shown.val.header.rcode = <<"Reserved", 15>>

\* the packets of a channel that its listener has taken
Received(all, rest) == SubSeq(all, 1, Len(all) - Len(rest))

\* the packets a listener is through with: the ones it has taken, but for the
\* one it has yet to write the outcome of
Handled(by, all, rest) ==
    SubSeq(all, 1, Len(all) - Len(rest) - (IF threads[by] = "decoding" THEN 1 ELSE 0))

\* how many elements of a sequence satisfy P
Count(seq, P(_)) == Cardinality({ k \in 1..Len(seq) : P(seq[k]) })

\* a port-53 UDP packet whose payload does not decode
FailsUdp(p) ==
    p.ok /\ ~OtherPort(p) /\ ~IsOk(DnsPacket_parse(p.payload, TRUE))

\* a port-53 TCP segment whose message does not decode
FailsTcp(p) ==
    p.ok /\ ~TcpSkipped(p) /\ ~IsOk(DnsPacket_parse(TcpMessage(p).val, TRUE))

\* the "malformed dns packet" lines a listener has written
Malformed(by) ==
    Count(printed, LAMBDA line : line.by = by /\ line.said = "malformed")

\* C19: each port-53 packet whose decode fails has produced exactly one
\* "malformed dns packet" line, and no packet has made a listener thread halt.
C19_ListenerReportsAndGoesOn ==
    /\ threads.udp \in {"running", "decoding", "failed"}
    /\ threads.tcp \in {"running", "decoding", "failed"}
    /\ Malformed("udp") = Count(Handled("udp", sent.udp, rx_udp), FailsUdp)
    /\ Malformed("tcp") = Count(Handled("tcp", sent.tcp, rx_tcp), FailsTcp)

\* the name the k-th entry of a message was written with
WrittenName(m, k) ==
    IF k <= Len(m.qd) THEN m.qd[k].name ELSE AllWritten(m)[k - Len(m.qd)].name

\* the bytes a name takes where it is written: a length byte and the text of
\* each of its labels, then one root byte or the two bytes of a pointer
RECURSIVE OwnBytes(_, _)
OwnBytes(n, k) ==
    IF k > Len(n.labels) THEN (IF n.ptr < 0 THEN 1 ELSE 2)
    ELSE 1 + Len(n.labels[k]) + OwnBytes(n, k + 1)

\* C21: the encoded length of a framed entry is (N - start) + 4 for a
\* question and (N - start) + 10 + RDLENGTH for a record, N the next-field
\* offset of its name; N - start counts the bytes written at the entry only:
\* a name that is one pointer counts 2, labels followed by a pointer count
\* their own bytes and 2.
C21_LengthCountsOwnBytes ==
    (pc = "records" \/ (Decoded /\ IsOk(result))) =>
        \A k \in 1..Len(Entries) :
            LET e == Entries[k] IN
            /\ IF k <= Len(questions)
               THEN DnsQuestion_get_length(e) = (e.next_index - e.offset) + 4
               ELSE DnsAnswer_get_length(raw, e) =
                        Ok((e.next_index - e.offset) + 10 + Be16(e.next_index + 8))
            /\ Intact => e.next_index - e.offset = OwnBytes(WrittenName(sent, k), 1)

\* a decoded message with a record whose name is one pointer and a record
\* whose name is a label followed by a pointer
C21_Witness ==
    /\ Decoded
    /\ IsOk(result)
    /\ Intact
    /\ \E k \in 1..Len(FullRecords) :
           LET e == FullRecords[k] IN
           raw[e.offset + 1] >= 192 /\ DnsAnswer_get_length(raw, e).val = 12 + Be16(e.next_index + 8)
    /\ \E k \in 1..Len(FullRecords) :
           LET e == FullRecords[k] IN
           /\ raw[e.offset + 1] = 1
           /\ raw[e.offset + 3] >= 192
           /\ DnsAnswer_get_length(raw, e).val = 14 + Be16(e.next_index + 8)

\* where the bytes written from index i on stop being labels: at a zero
\* byte, at a byte the resolver takes for a pointer (length & 0xC0 != 0), or
\* outside the buffer
RECURSIVE InPlaceStop(_, _)
InPlaceStop(buf, i) ==
    IF i >= Len(buf) THEN [kind |-> "outside", at |-> i]
    ELSE IF buf[i + 1] = 0 THEN [kind |-> "zero", at |-> i]
    ELSE IF buf[i + 1] >= 64 THEN [kind |-> "pointer", at |-> i]
    ELSE InPlaceStop(buf, i + 1 + buf[i + 1])

\* C22: on every successful parse_labels result the next-field offset is
\* z + 1, z the index of the terminating zero byte, when no pointer was met,
\* and p + 2, p the index of the first pointer met, otherwise, whatever is met
\* while chasing; it is greater than the start offset and at most the buffer
\* length + 1.
C22_NextFieldOffset ==
    IsOk(labres) =>
        LET stop == InPlaceStop(raw, start) IN
        /\ stop.kind # "outside"
        /\ labres.val.next_index = stop.at + (IF stop.kind = "zero" THEN 1 ELSE 2)
        /\ labres.val.next_index > start
        /\ labres.val.next_index <= Len(raw) + 1

\* a resolution that met a pointer to a second pointer, and behind that the
\* zero byte
C22_Witness ==
    /\ IsOk(labres)
    /\ InPlaceStop(raw, start).kind = "pointer"
    /\ start = 3
    /\ raw[start + 1] >= 192
    /\ raw[2] >= 192
    /\ raw[start + 2] = 1
    /\ labres.val.next_index = 5

\* C23: the resolver takes a length byte L for a pointer exactly when both
\* of its top two bits are set (L >= 0xC0); every other non-zero L, 0x40..0xBF
\* too, is recorded as a label at its index and moves the cursor on by L + 1.
C23_PointerIffBothTopBits ==
    (labres # None /\ start < Len(raw)) =>
        LET L == raw[start + 1] IN
        /\ (L \in 1..191 /\ IsOk(labres)) =>
               /\ labres.val.labels # <<>>
               /\ labres.val.labels[1] = start
        /\ (L \in 1..191 /\ start + L + 1 >= Len(raw)) =>
               /\ IsErr(labres)
               /\ labres.err = "LabelLength"
               /\ labres.at = start + L + 1
        /\ (L >= 192 /\ IsOk(labres)) =>
               /\ \A k \in 1..Len(labres.val.labels) : labres.val.labels[k] # start
               /\ labres.val.next_index = start + 2

\* the text of the labels at the given indexes, one '.' (byte 46) behind each
RECURSIVE DottedText(_, _, _)
DottedText(buf, indexes, k) ==
    IF k > Len(indexes) THEN <<>>
    ELSE SubSeq(buf, indexes[k] + 2, indexes[k] + 1 + buf[indexes[k] + 1])
             \o <<46>> \o DottedText(buf, indexes, k + 1)

\* how many '.' a text holds
Dots(text) == Cardinality({ k \in 1..Len(text) : text[k] = 46 })

\* C24: the text of a name is the text of each resolved label, in the order
\* of resolution, with one '.' behind each: a name of no labels (a zero byte,
\* or pointers that lead to one) has the empty text, any other ends with '.',
\* and as many '.' are added as labels were resolved.
C24_NameText ==
    IsOk(named) =>
        LET labels == parse_labels(raw, start).val.labels IN
        /\ named.val = DottedText(raw, labels, 1)
        /\ (labels = <<>>) <=> (named.val = <<>>)
        /\ labels # <<>> => named.val[Len(named.val)] = 46
        /\ Dots(named.val) = Len(labels)
        /\ Len(named.val) = LabelsBytes(raw, labels, 1)

\* the name behind a pointer: one label, one '.'
C24_Witness ==
    /\ IsOk(named)
    /\ start > 0
    /\ raw[start + 1] >= 192
    /\ named.val = <<97, 46>>

\* an Internet-class SOA record whose RDLENGTH is at least 22 and whose RDATA
\* ends inside the buffer
SoaInside(rec) ==
    /\ Be16(rec.next_index) = 6
    /\ Be16(rec.next_index + 2) = 1
    /\ Be16(rec.next_index + 8) >= 22
    /\ InsideBuffer(rec)

\* whether both names at the RDATA offset of a record resolve to text and the
\* 20 bytes behind the second one lie inside the buffer
SoaFits(rec) ==
    LET m == parse_labels(raw, rec.next_index + 10) IN
    /\ IsOk(m)
    /\ IsOk(get_name_from_labels(raw, m.val.labels))
    /\ LET r == parse_labels(raw, m.val.next_index) IN
       /\ IsOk(r)
       /\ IsOk(get_name_from_labels(raw, r.val.labels))
       /\ r.val.next_index + 20 <= Len(raw)

\* C25: for an Internet-class SOA record with RDLENGTH >= 22 and its RDATA
\* inside the buffer, the data is Soa only when both names resolve and the 20
\* bytes of SERIAL to MINIMUM behind the second name lie inside the buffer;
\* otherwise it is Invalid, and no byte outside the buffer is read.
C25_SoaOrInvalid ==
    (Decoded /\ IsOk(result)) =>
        \A k \in 1..Len(FullRecords) :
            LET rec == FullRecords[k] IN
            SoaInside(rec) =>
                /\ IsOk(get_data(raw, rec))
                /\ get_data(raw, rec).val.variant =
                       IF SoaFits(rec) THEN "Soa" ELSE "Invalid"

\* C26: in a decoded Message the fixed fields of every stored entry lie
\* inside the buffer, N + 4 <= buffer length for a question and N + 10 <=
\* buffer length for an answer, authority or additional (N the offset behind
\* the name), so get_type, get_class, get_ttl and get_data_length on a stored
\* entry read nothing outside the buffer.
C26_FixedFieldsInside ==
    (Decoded /\ IsOk(result)) =>
        /\ \A k \in 1..Len(questions) :
               LET q == questions[k] IN
               /\ q.next_index + 4 <= Len(raw)
               /\ IsOk(get_type(raw, q))
               /\ IsOk(get_class(raw, q))
        /\ \A k \in 1..Len(FullRecords) :
               LET rec == FullRecords[k] IN
               /\ rec.next_index + 10 <= Len(raw)
               /\ IsOk(get_type(raw, rec))
               /\ IsOk(get_class(raw, rec))
               /\ IsOk(get_ttl(raw, rec))
               /\ IsOk(get_data_length(raw, rec))

\* C27: on every successful parse_labels result each label index l has
\* l + 1 + buffer[l] < buffer length, the label and the byte behind it inside
\* the buffer, and buffer[l] is a length byte that is neither zero nor a
\* pointer; get_name_from_labels on that result reads nothing outside the
\* buffer.
C27_LabelsInsideBuffer ==
    IsOk(labres) =>
        /\ \A k \in 1..Len(labres.val.labels) :
               LET l == labres.val.labels[k] IN
               /\ l < Len(raw)
               /\ raw[l + 1] \in 1..63
               /\ l + 1 + raw[l + 1] < Len(raw)
        /\ get_name_from_labels(raw, labres.val.labels).status \in {"Ok", "Err"}

\* two labels resolved, the second one ending right before the last byte
C27_Witness ==
    /\ IsOk(labres)
    /\ Len(labres.val.labels) = 2
    /\ LET l == labres.val.labels[2] IN l + 2 + raw[l + 1] = Len(raw)
    /\ IsOk(get_name_from_labels(raw, labres.val.labels))

\* the types whose RDATA holds one name: NS, CNAME, PTR, MX, SRV
NamedTypes == {2, 5, 12, 15, 33}

\* the offset of that name: behind PREFERENCE for MX, behind PRIORITY, WEIGHT
\* and PORT for SRV, at the RDATA offset otherwise
NameOffset(rec) ==
    rec.next_index + 10
        + (CASE Be16(rec.next_index) = 15 -> 2
             [] Be16(rec.next_index) = 33 -> 6
             [] OTHER -> 0)

\* the index behind the bytes a name written at i takes in place
InPlaceEnd(i) ==
    LET stop == InPlaceStop(raw, i) IN
    stop.at + (IF stop.kind = "zero" THEN 1 ELSE 2)

\* C28: when an Internet-class NS, CNAME, PTR, MX or SRV record decodes to
\* its typed variant, the bytes of the name written at the RDATA offset, up to
\* the zero byte or the first pointer, lie inside [RDATA offset, RDATA offset
\* + RDLENGTH): a name that runs past the end of its RDATA is Invalid.
C28_NameInsideRdata ==
    (Decoded /\ IsOk(result)) =>
        \A k \in 1..Len(FullRecords) :
            LET rec == FullRecords[k] IN
            (/\ Be16(rec.next_index + 2) = 1
             /\ Be16(rec.next_index) \in NamedTypes
             /\ InsideBuffer(rec)
             /\ IsOk(get_data(raw, rec))
             /\ get_data(raw, rec).val.variant \in {"Ns", "Cname", "Ptr", "Mx", "Srv"})
                => /\ InPlaceStop(raw, NameOffset(rec)).kind # "outside"
                   /\ InPlaceEnd(NameOffset(rec))
                          <= rec.next_index + 10 + Be16(rec.next_index + 8)

\* the length a segment states in its first two payload bytes
StatedLength(p) == p.payload[1] * 256 + p.payload[2]

\* a segment that is not to or from port 53, has SYN or FIN set, or has a
\* payload shorter than 14 bytes or shorter than 2 + the stated length
Skips(p) ==
    \/ (p.source # 53 /\ p.destination # 53)
    \/ p.syn
    \/ p.fin
    \/ Len(p.payload) < 14
    \/ Len(p.payload) < 2 + StatedLength(p)

\* the bytes [2, 2 + length) of the payload of a segment
StatedBytes(p) == SubSeq(p.payload, 3, 2 + StatedLength(p))

\* the segments listen_tcp has taken and may not skip, in order
Handed ==
    SelectSeq(Received(sent.tcp, rx_tcp), LAMBDA p : p.ok /\ ~Skips(p))

\* the prefixes listen_tcp has written, in order
TcpPrefixes == SelectSeq(printed, LAMBDA l : l.by = "tcp" /\ l.said = "got")

\* the outcomes listen_tcp has written, in order
TcpOutcomes == SelectSeq(printed, LAMBDA l : l.by = "tcp" /\ l.said # "got")

\* C29: listen_tcp gives the decoder exactly the bytes [2, 2 + length) of a
\* segment payload, length the big-endian u16 in the first two payload bytes;
\* it skips, decoding and printing nothing, every segment that is not to or
\* from port 53, has SYN or FIN set, has a payload shorter than 14 bytes or
\* shorter than 2 + length; it never slices the payload out of range.
C29_TcpFraming ==
    /\ Len(TcpPrefixes) = Len(Handed)
    /\ \A k \in 1..Len(TcpPrefixes) : TcpPrefixes[k].packet = Handed[k]
    /\ Len(TcpOutcomes) <= Len(Handed)
    /\ \A k \in 1..Len(TcpOutcomes) :
           /\ TcpOutcomes[k].packet = Handed[k]
           /\ \E checks \in BOOLEAN :
                  Report(StatedBytes(Handed[k]), checks) = Ok(TcpOutcomes[k].said)
    /\ \A k \in 1..Len(Handed) : 2 + StatedLength(Handed[k]) <= Len(Handed[k].payload)
    /\ threads.tcp \in {"hung", "panicked"} =>
           /\ Len(TcpOutcomes) < Len(Handed)
           /\ \E checks \in BOOLEAN :
                  ~IsOk(Report(StatedBytes(Handed[Len(TcpOutcomes) + 1]), checks))

\* listen_tcp has skipped a segment that states one byte more than it holds
\* and has reported the 3-byte message of a segment that holds 12 bytes
C29_Witness ==
    /\ rx_tcp = <<>>
    /\ Len(sent.tcp) = 2
    /\ sent.tcp[1].ok
    /\ ~OtherPort(sent.tcp[1])
    /\ Len(sent.tcp[1].payload) = 14
    /\ StatedLength(sent.tcp[1]) = 13
    /\ Len(TcpOutcomes) = 1
    /\ StatedLength(TcpOutcomes[1].packet) = 3
    /\ Len(TcpOutcomes[1].packet.payload) = 14
    /\ TcpOutcomes[1].said = "malformed"

\* C30: with both listener threads running, the two writes of a pass, the
\* prefix "got udp/tcp dns packet from <addr>: " and then the decoded message
\* or the malformed line, are never separated by what the other thread
\* writes for a packet of its own.
C30_OutputNotInterleaved ==
    \A k \in 1..(Len(printed) - 1) :
        printed[k].said = "got" => printed[k + 1].by = printed[k].by

===========================================================================
